---- MODULE Spec2Model ----
(***************************************************************************)
(* Decision-and-lifecycle engine of blech_github_bot: branch resolution,   *)
(* authenticated push, the external edit, the three code-editing           *)
(* workflows and the trigger evaluator, as a state machine over one        *)
(* tracked repository with one issue, one stand-alone pull request and the *)
(* pull request that develop_issue_flow opens for the issue.               *)
(*                                                                         *)
(* Comment bodies are modelled by the set of recognised substrings they    *)
(* contain (every test the code makes on a body is a substring test):      *)
(*   "bot"        "generated by blech_bot"                                 *)
(*   "gec"        "[ generate_edit_command ]"                              *)
(*   "dev"        "[ develop_issue ]"                                      *)
(*   "prc"        "Created pull request"                                   *)
(*   "trace"      "Traceback (most recent call last):"                     *)
(*   "multi"      "Found multiple branches"                                *)
(*   "pushfail"   "Failed to push changes"                                 *)
(*   "createfail" "Failed to create"                                       *)
(*   "ghmissing"  "GitHub CLI (gh) not found. Please install it first."    *)
(*   "nochanges"  "No changes made by Aider"                               *)
(***************************************************************************)
EXTENDS Integers, Sequences, FiniteSets, TLC

\* ---------------------------------------------------------------- bounds
MaxComments == 4    \* an operation starts only on threads shorter than this
MaxHuman == 1       \* comments written by users over a behaviour
MaxOps == 2         \* operations started over a behaviour
MaxBranches == 3    \* distinct branch names that can reference the issue
MaxText == 3        \* tokens in a generated text

\* ------------------------------------------------------------- universes
Items == {"issue", "pr", "devpr"}
Prs == {"pr", "devpr"}
MainNames == {"master", "main"}
PrBranch == "feature"
NameTable == <<"1-fix", "1-fix-b", "1-fix-c", "1-fix-d", "1-fix-e">>
IssueBranchNames == {NameTable[k] : k \in 1..MaxBranches}
HumanBodies == {{}, {"gec"}, {"dev"}}

VARIABLES
  comments,       \* item -> sequence of comment bodies, oldest first
  labels,         \* item -> set of label names
  prOpen,         \* pull requests that exist
  prHead,         \* pull request -> head branch (pr.head.ref)
  localHeads,     \* repo.heads of the clone
  tracking,       \* origin/<b> refs known to the clone
  remoteHeads,    \* heads on origin (git ls-remote --heads origin)
  ghLinked,       \* branches `gh issue develop -l` lists for the issue
  currentBranch,  \* branch checked out in the clone
  cwd,            \* process working directory: "home" or "repo"
  originUrl,      \* persisted URL of remote 'origin'
  humans,         \* number of user comments written so far
  ops,            \* number of operations started so far
  pc,             \* position of the running operation, "idle" when none
  fr,             \* locals of the running workflow
  entry,          \* state recorded when the running/last operation started
  did,            \* effects performed by the running/last operation
  result,         \* outcome of the last finished operation
  titled,         \* items whose title holds "[ blech_bot ]"
  classifier,     \* the is_pull_request bound in response_agent
  run,            \* the process_issue / process_repository call in progress
  text,           \* the text the LLM generated, as a sequence of tokens
  posted,         \* the comment body last published from it
  worktree,       \* uncommitted changes in the clone's working tree
  diverged        \* local heads that differ from their origin/<b>

vars == <<comments, labels, prOpen, prHead, localHeads, tracking, remoteHeads,
          ghLinked, currentBranch, cwd, originUrl, humans, ops, pc, fr,
          entry, did, result, titled, classifier, run, text, posted,
          worktree, diverged>>

gitVars == <<localHeads, tracking, remoteHeads, ghLinked, currentBranch>>
hubVars == <<comments, labels, prOpen, prHead>>
callVars == <<titled, classifier, run>>
auxVars == <<text, posted, worktree, diverged>>

\* ----------------------------------------------------------- exceptions
NoExc == [type |-> "none", marks |-> {}, names |-> {}]
Exc(t, m) == [type |-> t, marks |-> m, names |-> {}]
Raised(e) == e.type # "none"

Last(s) == s[Len(s)]

\* ------------------------------------------------------------- git_utils
\* write_issue_response: the signature is appended unless the text already
\* carries one; the comment is created on the thread.
write_issue_response(cs, marks) ==
  Append(cs, IF "bot" \in marks THEN marks ELSE marks \cup {"bot"})

\* pr_obj.create_issue_comment / issue.create_comment: body posted as is
create_issue_comment(cs, marks) == Append(cs, marks)

\* a tab_print that puts its text on the thread as well
tab_print_on_thread(cs, marks) == Append(cs, marks)

\* response_agent.tab_print: the text is printed to the console; the thread
\* it is about stays as it is
tab_print(cs, marks) == cs

Rank(n) == CHOOSE k \in 1..Len(NameTable) : NameTable[k] = n

RECURSIVE SeqOfNames(_, _)
SeqOfNames(S, tag) ==
  IF S = {} THEN <<>>
  ELSE LET m == CHOOSE x \in S : \A y \in S : Rank(x) <= Rank(y)
       IN <<(<<m, tag>>)>> \o SeqOfNames(S \ {m}, tag)

\* branch_handler.get_issue_related_branches: the branches gh lists for the
\* issue, or, when it lists none, the local heads and then the remote heads
\* whose name contains "<number>-<title>".  lsOk: `git ls-remote` answers.
get_issue_related_branches(linked, heads, remote, lsOk, dir) ==
  IF linked # {}
  THEN [exc |-> NoExc, list |-> SeqOfNames(linked, "url"), cwd |-> dir]
  ELSE IF ~lsOk
  THEN [exc |-> Exc("GitCommandError", {}), list |-> <<>>, cwd |-> "repo"]
  ELSE [exc |-> NoExc,
        list |-> SeqOfNames(heads \cap IssueBranchNames, "local")
                   \o SeqOfNames(remote \cap IssueBranchNames, "remote"),
        cwd |-> dir]

NamesOf(list) == {list[k][1] : k \in DOMAIN list}

\* the distinct branch names that reference the issue
RelatedNames ==
  NamesOf(get_issue_related_branches(ghLinked, localHeads, remoteHeads,
                                     TRUE, cwd).list)

\* a chain that honours the create flag before looking for a branch
branch_case_create_first(n, create) ==
  IF create THEN "create"
  ELSE IF n > 1 THEN "multiple"
  ELSE IF n = 1 THEN "existing"
  ELSE "none"

\* the if/elif chain of get_development_branch (git_utils.py 236, 246, 248,
\* 280) over the number n of distinct related branch names
branch_case(n, create) ==
  IF n > 1 THEN "multiple"
  ELSE IF n = 1 THEN "existing"
  ELSE IF create THEN "create"
  ELSE "none"

\* an `elif len(branch_dict) == 1` branch that returns nothing
only_branch_dropped(names) == "None"

\* list(branch_dict.keys())[0] of a dictionary with one key (git_utils.py
\* 246-247)
only_branch(names) == CHOOSE b \in names : TRUE

\* git_utils.get_development_branch for the issue.
\*   create: the flag; lsOk: see above; gh: outcome of `gh issue develop N`
\*   ("ok", "missing" = FileNotFoundError, "fail" = CalledProcessError).
\* Yields the exception or return value and the state the call leaves.
get_development_branch(create, lsOk, gh) ==
  LET rel == get_issue_related_branches(ghLinked, localHeads, remoteHeads,
                                        lsOk, cwd)
      cs == comments["issue"]
      base == [exc |-> NoExc, ret |-> "None", comments |-> cs, cwd |-> cwd,
               remoteHeads |-> remoteHeads, tracking |-> tracking,
               ghLinked |-> ghLinked, created |-> {}]
      unique_branches == NamesOf(rel.list)
      which == branch_case(Cardinality(unique_branches), create)
      new == NameTable[1]
  IN
  IF Raised(rel.exc) THEN [base EXCEPT !.exc = rel.exc, !.cwd = rel.cwd]
  ELSE IF which = "multiple" THEN
    IF cs = <<>> THEN [base EXCEPT !.exc = Exc("IndexError", {})]
    ELSE [base EXCEPT
            !.exc = [type |-> "RuntimeError", marks |-> {"multi"},
                     names |-> unique_branches],
            !.comments = IF "multi" \in Last(cs) THEN cs
                         ELSE write_issue_response(cs, {"multi"})]
  ELSE IF which = "existing" THEN
    [base EXCEPT !.ret = only_branch(unique_branches)]
  ELSE IF which = "create" THEN
    CASE gh = "ok" ->
           LET again == get_issue_related_branches(
                          {new}, localHeads, remoteHeads \cup {new}, lsOk,
                          "repo")
           IN [base EXCEPT !.ret = again.list[1][1],
                           !.remoteHeads = remoteHeads \cup {new},
                           !.tracking = tracking \cup {new},
                           !.ghLinked = {new},
                           !.created = {new}]
      [] gh = "missing" ->
           IF cs = <<>> THEN [base EXCEPT !.exc = Exc("IndexError", {}),
                                          !.cwd = "repo"]
           ELSE [base EXCEPT
                   !.exc = Exc("ValueError", {"ghmissing"}),
                   !.cwd = "repo",
                   !.comments = IF "ghmissing" \in Last(cs) THEN cs
                                ELSE write_issue_response(cs, {"ghmissing"})]
      [] OTHER ->
           IF cs = <<>> THEN [base EXCEPT !.exc = Exc("IndexError", {}),
                                          !.cwd = "repo"]
           ELSE [base EXCEPT
                   !.exc = Exc("RuntimeError", {"createfail"}),
                   !.cwd = "repo",
                   !.comments = IF "createfail" \in Last(cs) THEN cs
                                ELSE write_issue_response(cs, {"createfail"})]
  ELSE base

\* a finally block that leaves the rewritten URL in place
restore_url_skipped(repo_url, current) == current

\* the finally block of push_changes_with_authentication (git_utils.py
\* 385-387): the saved URL is written back when it is an https URL
restore_url(repo_url, current) ==
  IF repo_url \in {"https", "https+token"} THEN repo_url ELSE current

\* git_utils.push_changes_with_authentication(repo_path, out_thread, branch)
\*   thread: the item reports go to; asIssue: isinstance(out_thread, Issue)
\*   (the Issue object of a pull request is an Issue too); outcome of the
\*   environment: "accepted", "rejected" (GitCommandError), "notoken".
push_changes_with_authentication(thread, asIssue, branch, outcome) ==
  LET cs == comments[thread]
      repo_url == originUrl
      during == IF repo_url \in {"https", "https+token"} THEN "https+token"
                ELSE repo_url
      base == [exc |-> NoExc, ret |-> "none", comments |-> cs,
               url |-> originUrl, during |-> originUrl,
               remoteHeads |-> remoteHeads, tracking |-> tracking]
      tried == [base EXCEPT !.url = restore_url(repo_url, during),
                            !.during = during]
  IN
  CASE outcome = "notoken" -> [base EXCEPT !.exc = Exc("ValueError", {})]
    [] outcome = "accepted" ->
         [tried EXCEPT !.ret = "ok",
                       !.remoteHeads = remoteHeads \cup {branch},
                       !.tracking = tracking \cup {branch}]
    [] OTHER ->
         IF cs = <<>> THEN [tried EXCEPT !.exc = Exc("IndexError", {})]
         ELSE [tried EXCEPT
                 !.ret = "rejected",
                 !.comments =
                   IF "pushfail" \in Last(cs) THEN cs
                   ELSE IF asIssue THEN write_issue_response(cs, {"pushfail"})
                   ELSE create_issue_comment(cs, {"pushfail"})]

PushOutcomes == {"accepted", "rejected", "notoken"}

GhOutcomes == {"ok", "missing", "fail"}

\* --------------------------------------------------------- branch_handler
\* checkout_branch(repo_path, b, create): clean, optional create_head,
\* `git checkout b` (a local head, or one made from origin/b), then
\* `git reset --hard origin/b`, which fails when origin/b is unknown.
checkout_branch(b, create, heads, track, cur) ==
  LET heads1 == IF create /\ b \notin heads THEN heads \cup {b} ELSE heads
  IN IF b \notin heads1 \cup track
     THEN [exc |-> Exc("GitCommandError", {}), heads |-> heads1, cur |-> cur]
     ELSE IF b \notin track
     THEN [exc |-> Exc("GitCommandError", {}), heads |-> heads1 \cup {b},
           cur |-> b]
     ELSE [exc |-> NoExc, heads |-> heads1 \cup {b}, cur |-> b]

\* uncommitted changes a working tree can hold
TreeChanges == {"untracked_file", "untracked_dir", "modified"}

\* `git clean -f`: untracked files are removed; untracked directories (no
\* -d) and modifications of tracked files stay
git_clean(wt) == wt \ {"untracked_file"}

\* `git reset --hard <ref>`: modifications of tracked files are dropped
git_reset_hard(wt) == wt \ {"modified"}

\* checkout_branch with the working tree: clean, optional create_head,
\* `git checkout b` (refused when modified files would be overwritten:
\* ~carry), then the reset to origin/b. div: heads that differ from their
\* origin/<b>.
checkout_worktree(b, create, heads, track, cur, wt, div, carry) ==
  LET wt1 == git_clean(wt)
      heads1 == IF create /\ b \notin heads THEN heads \cup {b} ELSE heads
      r == checkout_branch(b, create, heads, track, cur)
  IN IF b \in heads1 \cup track /\ b # cur /\ "modified" \in wt1 /\ ~carry
     THEN [exc |-> Exc("GitCommandError", {}), heads |-> heads1, cur |-> cur,
           wt |-> wt1, div |-> div]
     ELSE IF Raised(r.exc)
     THEN [exc |-> r.exc, heads |-> r.heads, cur |-> r.cur, wt |-> wt1,
           div |-> div]
     ELSE [exc |-> NoExc, heads |-> r.heads, cur |-> r.cur,
           wt |-> git_reset_hard(wt1), div |-> div \ {b}]

\* back_to_master_branch(repo_path): 'master' if it is a local head, else
\* 'main', else ValueError; gitOk: `git checkout` of it succeeds.
back_to_master_branch(heads, cur, gitOk) ==
  IF "master" \in heads \/ "main" \in heads
  THEN LET main_branch == IF "master" \in heads THEN "master" ELSE "main"
       IN IF gitOk THEN [exc |-> NoExc, cur |-> main_branch]
          ELSE [exc |-> Exc("GitCommandError", {}), cur |-> cur]
  ELSE [exc |-> Exc("ValueError", {}), cur |-> cur]

\* the main branch merge_master determines (branch_handler.py 286-303):
\* 'main' if it is a local head, else 'master', else none
merge_master_branch(heads) ==
  IF "main" \in heads THEN "main"
  ELSE IF "master" \in heads THEN "master"
  ELSE "None"

\* delete_branch(repo_path, b, force): the local head is deleted if present
delete_branch(b, heads) == heads \ {b}

\* --------------------------------------------------------- response_agent
\* a run_aider that takes exit status 0 as success
run_aider_unchecked(outcome, dir) ==
  CASE outcome = "missing" ->
         [exc |-> Exc("ValueError", {}), cwd |-> dir, ran |-> FALSE]
    [] outcome = "failed" ->
         [exc |-> Exc("RuntimeError", {}), cwd |-> dir, ran |-> TRUE]
    [] OTHER -> [exc |-> NoExc, cwd |-> dir, ran |-> TRUE]

\* run_aider(message, repo_path): the HEAD hash is read before and after the
\* run; outcome "changed" | "nochange" (exit 0, no commit) | "failed"
\* (CalledProcessError) | "missing" (FileNotFoundError).  Every path
\* returns to the directory the call started in.
run_aider(outcome, dir) ==
  LET current_commit == "c0"
      updated_commit == IF outcome = "changed" THEN "c1" ELSE current_commit
  IN CASE outcome = "missing" ->
            [exc |-> Exc("ValueError", {}), cwd |-> dir, ran |-> FALSE]
       [] outcome = "failed" ->
            [exc |-> Exc("RuntimeError", {}), cwd |-> dir, ran |-> TRUE]
       [] OTHER ->
            IF current_commit = updated_commit
            THEN [exc |-> Exc("RuntimeError", {"nochanges", "trace"}),
                  cwd |-> dir, ran |-> TRUE]
            ELSE [exc |-> NoExc, cwd |-> dir, ran |-> TRUE]

AiderOutcomes == {"changed", "nochange", "failed", "missing"}

\* the index scan of has_user_feedback / respond_pr_comment_flow: the
\* 0-based index of the latest bot comment, -1 when there is none
latest_bot_idx(cs) ==
  IF \E k \in DOMAIN cs : "bot" \in cs[k]
  THEN (CHOOSE k \in DOMAIN cs :
          "bot" \in cs[k] /\ \A j \in DOMAIN cs : "bot" \in cs[j] => j <= k)
       - 1
  ELSE -1

\* a feedback test without the `latest_bot_idx >= 0` conjunct
user_feedback_bool_no_bot_test(cs) == latest_bot_idx(cs) < Len(cs) - 1

user_feedback_bool(cs) ==
  latest_bot_idx(cs) >= 0 /\ latest_bot_idx(cs) < Len(cs) - 1

\* --------------------------------------------------------------- records
NoFrame == [op |-> "none", item |-> "none", branch |-> "None",
            original_dir |-> "home", exc |-> NoExc, pushRet |-> "none"]
Frame(op, item, branch, dir) ==
  [op |-> op, item |-> item, branch |-> branch, original_dir |-> dir,
   exc |-> NoExc, pushRet |-> "none"]

Snapshot == [cwd |-> cwd, url |-> originUrl, related |-> RelatedNames,
             empty |-> {i \in Items : comments[i] = <<>>},
             hub |-> hubVars, git |-> gitVars]
NoSnapshot == [cwd |-> "home", url |-> "https", related |-> {}, empty |-> {},
               hub |-> <<>>, git |-> <<>>]
\* what is kept of a call of process_issue: the item, how it ended, the
\* number of user comments by then, and the length the item's thread had
\* when the call started
NoPass == [item |-> "none", status |-> "none", humans |-> 0, len |-> 0]

\* after: the branch the call made just before, a returned
\* get_development_branch(create=True), created; "None" otherwise
NoOutcome == [op |-> "none", status |-> "none", exc |-> NoExc,
              ret |-> "None", env |-> "ok", item |-> "none", again |-> FALSE,
              prev |-> NoPass, after |-> "None"]

\* no process_issue or process_repository call is in progress
NoRun == [item |-> "none", call |-> "none", repo |-> FALSE, todo |-> <<>>,
          items |-> {}, done |-> {}, log |-> <<>>, won |-> {},
          last |-> NoPass]

Outcome(op, status, exc, ret, env) ==
  [op |-> op, status |-> status, exc |-> exc, ret |-> ret, env |-> env,
   item |-> "none", again |-> FALSE, prev |-> NoPass, after |-> "None"]

Room(i) == Len(comments[i]) < MaxComments

\* an operation is started from the idle state
StartOp == /\ pc = "idle" /\ ops < MaxOps /\ ops' = ops + 1

\* a workflow is entered by a direct call, or by the call process_issue
\* makes for the item it is processing
Enter(flow, direct) ==
  IF direct THEN StartOp /\ run.item = "none" /\ ~run.repo
  ELSE pc = "dispatch" /\ run.call = flow /\ UNCHANGED ops

\* the arguments a workflow is entered with
IsPrArgs == IF run.item = "none" THEN BOOLEAN ELSE {FALSE}
SoloItems == IF run.item = "none" THEN prOpen ELSE {run.item} \cap prOpen

\* ------------------------------------------------------------------ Init
\* A freshly updated clone on its main branch, the stand-alone pull request
\* open on its own branch, nothing posted yet.
InitRepo(main, url) ==
  /\ comments = [i \in Items |-> <<>>]
  /\ labels = [i \in Items |-> {"blech_bot"}]
  /\ prOpen = {"pr"}
  /\ prHead = [p \in Prs |-> IF p = "pr" THEN PrBranch ELSE "None"]
  /\ localHeads = {main, PrBranch}
  /\ tracking = {main, PrBranch}
  /\ remoteHeads = {main, PrBranch}
  /\ currentBranch = main
  /\ ghLinked = {}
  /\ cwd = "home"
  /\ originUrl = url
  /\ humans = 0
  /\ ops = 0
  /\ pc = "idle"
  /\ fr = NoFrame
  /\ entry = NoSnapshot
  /\ did = {}
  /\ result = NoOutcome
  /\ titled = {}
  /\ classifier = "source"
  /\ run = NoRun

\* nothing generated or published yet, a clean working tree, every local
\* head at its origin/<b>
InitAux ==
  /\ text = <<>>
  /\ posted = <<>>
  /\ worktree = {}
  /\ diverged = {}

Init ==
  \E main \in MainNames, url \in {"https", "ssh"} :
    InitRepo(main, url) /\ InitAux

\* what an environment step leaves of the last operation's record
Forget == /\ entry' = NoSnapshot /\ did' = {} /\ result' = NoOutcome

\* ----------------------------------------------------------- environment
\* the threads users write on
OpenThreads == {"issue"} \cup prOpen

\* a user writes a comment on thread i
UserCommentOn(i) ==
  /\ UNCHANGED <<callVars, auxVars>>
  /\ pc = "idle"
  /\ humans < MaxHuman
  /\ Room(i)
  /\ \E b \in HumanBodies : comments' = [comments EXCEPT ![i] = Append(@, b)]
  /\ humans' = humans + 1
  /\ Forget
  /\ UNCHANGED <<labels, prOpen, prHead, gitVars, cwd, originUrl, ops, pc,
                 fr>>

\* a user comment without any marker
UserPlainOn(i) ==
  /\ UNCHANGED <<callVars, auxVars>>
  /\ pc = "idle"
  /\ humans < MaxHuman
  /\ Room(i)
  /\ comments' = [comments EXCEPT ![i] = Append(@, {})]
  /\ humans' = humans + 1
  /\ Forget
  /\ UNCHANGED <<labels, prOpen, prHead, gitVars, cwd, originUrl, ops, pc,
                 fr>>

\* a user pastes an error report, traceback header included, on thread i
UserErrorReportOn(i) ==
  /\ UNCHANGED <<callVars, auxVars>>
  /\ pc = "idle"
  /\ humans < MaxHuman
  /\ Room(i)
  /\ comments' = [comments EXCEPT ![i] = Append(@, {"trace"})]
  /\ humans' = humans + 1
  /\ Forget
  /\ UNCHANGED <<labels, prOpen, prHead, gitVars, cwd, originUrl, ops, pc,
                 fr>>

UserErrorReport == \E i \in OpenThreads : UserErrorReportOn(i)

UserPlainIssue == UserPlainOn("issue")
UserPlainPr == \E p \in prOpen : UserPlainOn(p)

UserCommentIssue == UserCommentOn("issue")
UserCommentPr == \E p \in prOpen : UserCommentOn(p)

\* a user pushes one more branch whose name contains the issue's
\* "<number>-<title>" to origin, and may link it to the issue on GitHub
UserBranch ==
  /\ UNCHANGED <<callVars, auxVars>>
  /\ pc = "idle"
  /\ \E k \in 1..MaxBranches, link \in BOOLEAN :
       /\ k = Cardinality(remoteHeads \cap IssueBranchNames) + 1
       /\ remoteHeads' = remoteHeads \cup {NameTable[k]}
       /\ ghLinked' = IF link THEN ghLinked \cup {NameTable[k]} ELSE ghLinked
  /\ Forget
  /\ UNCHANGED <<comments, labels, prOpen, prHead, localHeads, tracking,
                 currentBranch, cwd, originUrl, humans, ops, pc, fr>>

\* ------------------------------------------- get_development_branch call
CallGetDevelopmentBranch ==
  /\ UNCHANGED <<callVars, auxVars>>
  /\ StartOp
  /\ Room("issue")
  /\ \E create \in BOOLEAN, lsOk \in BOOLEAN, gh \in GhOutcomes :
       LET r == get_development_branch(create, lsOk, gh)
       IN /\ comments' = [comments EXCEPT !["issue"] = r.comments]
          /\ cwd' = r.cwd
          /\ remoteHeads' = r.remoteHeads
          /\ tracking' = r.tracking
          /\ ghLinked' = r.ghLinked
          /\ did' = {"create_branch" : x \in r.created}
          /\ result' =
               [Outcome(IF create THEN "get_development_branch_create"
                        ELSE "get_development_branch",
                        IF Raised(r.exc) THEN "raised" ELSE "returned",
                        r.exc, r.ret,
                        IF ~lsOk /\ ghLinked = {} THEN "ls_failed" ELSE "ok")
                EXCEPT !.after =
                  IF /\ result.op = "get_development_branch_create"
                     /\ result.status = "returned"
                     /\ "create_branch" \in did
                  THEN result.ret ELSE "None"]
  /\ entry' = Snapshot
  /\ UNCHANGED <<labels, prOpen, prHead, localHeads, currentBranch,
                 originUrl, humans, pc, fr>>

\* --------------------------------- push_changes_with_authentication call
CallPush ==
  /\ UNCHANGED <<callVars, auxVars>>
  /\ StartOp
  /\ \E thread \in {"issue"} \cup prOpen, asIssue \in BOOLEAN,
        outcome \in PushOutcomes :
       /\ thread = "issue" => asIssue
       /\ Room(thread)
       /\ LET r == push_changes_with_authentication(thread, asIssue,
                                                    currentBranch, outcome)
          IN /\ comments' = [comments EXCEPT ![thread] = r.comments]
             /\ originUrl' = r.url
             /\ remoteHeads' = r.remoteHeads
             /\ tracking' = r.tracking
             /\ did' = (IF outcome = "notoken" THEN {} ELSE {"push_attempt"})
                        \cup (IF r.during # originUrl THEN {"url_rewritten"}
                              ELSE {})
                        \cup (IF r.ret = "ok" THEN {"push_ok"} ELSE {})
             /\ result' = Outcome("push_changes_with_authentication",
                                  IF Raised(r.exc) THEN "raised"
                                  ELSE "returned",
                                  r.exc, r.ret, outcome)
  /\ entry' = Snapshot
  /\ UNCHANGED <<labels, prOpen, prHead, localHeads, ghLinked, currentBranch,
                 cwd, humans, pc, fr>>

\* ------------------------------------------------------- workflow steps
Finish(op, status, exc) ==
  /\ pc' = IF run.item = "none" THEN "idle" ELSE "returned"
  /\ fr' = NoFrame
  /\ result' = Outcome(op, status, exc, "None", "ok")

\* an exception caught by the workflow's handler
Caught(e) == /\ pc' = "rollback" /\ fr' = [fr EXCEPT !.exc = e]

At(op, step) == pc = step /\ fr.op = op

\* the message a workflow raises wraps the cause and its traceback
Wrapped(e) == [type |-> "Exception", marks |-> e.marks \cup {"trace"},
               names |-> e.names]

\* ----------------------------------------- develop_issue_flow (690-784)
\* a try block that labels the issue before it posts the comment
DevNext_label_first(step) ==
  CASE step = "aider" -> "push"
    [] step = "push" -> "create_pr"
    [] step = "create_pr" -> "label"
    [] step = "label" -> "issue_comment"
    [] step = "issue_comment" -> "pr_comment"
    [] OTHER -> "back"

\* the statement that follows each statement of the try block (720-762):
\* run_aider, push, create the pull request, the 'Created pull request'
\* comment, the label, the report on the pull request, back to main
DevNext(step) ==
  CASE step = "aider" -> "push"
    [] step = "push" -> "create_pr"
    [] step = "create_pr" -> "issue_comment"
    [] step = "issue_comment" -> "label"
    [] step = "label" -> "pr_comment"
    [] OTHER -> "back"

\* lines 696-708: the is_pr guard, the existing-branch check, the label guard
DevStartVia(direct) ==
  /\ UNCHANGED <<callVars, auxVars>>
  /\ Enter("develop", direct)
  /\ Room("issue")
  /\ entry' = Snapshot
  /\ did' = {}
  /\ \E is_pr \in IsPrArgs, lsOk \in BOOLEAN :
       LET r == get_development_branch(FALSE, lsOk, "ok")
       IN IF is_pr
          THEN /\ Finish("develop_issue_flow", "skip", NoExc)
               /\ UNCHANGED <<comments, cwd>>
          ELSE /\ comments' = [comments EXCEPT !["issue"] = r.comments]
               /\ cwd' = r.cwd
               /\ IF Raised(r.exc)
                  THEN Finish("develop_issue_flow", "error", r.exc)
                  ELSE IF "under_development" \in labels["issue"]
                  THEN Finish("develop_issue_flow", "skip", NoExc)
                  ELSE /\ pc' = "generate"
                       /\ fr' = Frame("develop", "issue", r.ret, cwd)
                       /\ UNCHANGED result
  /\ UNCHANGED <<labels, prOpen, prHead, gitVars, originUrl, humans>>

\* develop_issue_flow called directly, and called by process_issue
DevStart == DevStartVia(TRUE)
DevCalled == DevStartVia(FALSE)

\* line 711: generate_edit_command_response (the LLM may fail)
DevGenerate ==
  /\ UNCHANGED <<callVars, auxVars>>
  /\ At("develop", "generate")
  /\ \E ok \in BOOLEAN :
       IF ok THEN /\ pc' = "branch" /\ UNCHANGED <<fr, result>>
       ELSE Finish("develop_issue_flow", "error", Exc("LLMError", {}))
  /\ UNCHANGED <<hubVars, gitVars, cwd, originUrl, humans, ops, entry, did>>

\* lines 714-718: resolve or create the branch, chdir, checkout
DevBranch ==
  /\ UNCHANGED <<callVars, auxVars>>
  /\ At("develop", "branch")
  /\ \E lsOk \in BOOLEAN, gh \in GhOutcomes :
       LET r == get_development_branch(TRUE, lsOk, gh)
           co == checkout_branch(r.ret, FALSE, localHeads, r.tracking,
                                 currentBranch)
       IN /\ comments' = [comments EXCEPT !["issue"] = r.comments]
          /\ remoteHeads' = r.remoteHeads
          /\ tracking' = r.tracking
          /\ ghLinked' = r.ghLinked
          /\ IF Raised(r.exc)
             THEN /\ cwd' = r.cwd
                  /\ did' = did
                  /\ Finish("develop_issue_flow", "error", r.exc)
                  /\ UNCHANGED <<localHeads, currentBranch>>
             ELSE /\ cwd' = "repo"
                  /\ localHeads' = co.heads
                  /\ currentBranch' = co.cur
                  /\ did' = did \cup {"create_branch" : x \in r.created}
                              \cup {"checkout" : x \in {co.cur} \ {currentBranch}}
                  /\ IF Raised(co.exc)
                     THEN Finish("develop_issue_flow", "error", co.exc)
                     ELSE /\ pc' = "aider"
                          /\ fr' = Frame("develop", "issue", r.ret, r.cwd)
                          /\ UNCHANGED result
  /\ UNCHANGED <<labels, prOpen, prHead, originUrl, humans, ops, entry>>

\* line 722: run_aider inside the try
DevAider ==
  /\ UNCHANGED <<callVars, auxVars>>
  /\ At("develop", "aider")
  /\ \E outcome \in AiderOutcomes :
       LET a == run_aider(outcome, cwd)
       IN /\ cwd' = a.cwd
          /\ did' = did \cup {"aider" : x \in {a.ran} \ {FALSE}}
                        \cup {"aider_nochange" : x \in {outcome} \cap {"nochange"}}
          /\ IF Raised(a.exc) THEN Caught(a.exc)
             ELSE pc' = DevNext("aider") /\ UNCHANGED fr
  /\ UNCHANGED <<hubVars, gitVars, originUrl, humans, ops, entry, result>>

\* lines 725-733: push; the returned (ok, message) is not looked at
DevPush ==
  /\ UNCHANGED <<callVars, auxVars>>
  /\ At("develop", "push")
  /\ \E outcome \in PushOutcomes :
       LET r == push_changes_with_authentication("issue", TRUE, fr.branch,
                                                 outcome)
       IN /\ comments' = [comments EXCEPT !["issue"] = r.comments]
          /\ originUrl' = r.url
          /\ remoteHeads' = r.remoteHeads
          /\ tracking' = r.tracking
          /\ did' = did \cup (IF outcome = "notoken" THEN {}
                              ELSE {"push_attempt"})
                        \cup (IF r.ret = "ok" THEN {"push_ok"} ELSE {})
                        \cup (IF r.ret = "rejected" \/ outcome = "rejected"
                              THEN {"push_rejected"} ELSE {})
          /\ IF Raised(r.exc) THEN Caught(r.exc)
             ELSE pc' = DevNext("push") /\ fr' = [fr EXCEPT !.pushRet = r.ret]
  /\ UNCHANGED <<labels, prOpen, prHead, localHeads, ghLinked, currentBranch,
                 cwd, humans, ops, entry, result>>

\* lines 735-737: create_pull_request_from_issue, then repo.get_pull
DevCreatePr ==
  /\ UNCHANGED <<callVars, auxVars>>
  /\ At("develop", "create_pr")
  /\ \E lsOk \in BOOLEAN, ghOk \in BOOLEAN :
       LET r == get_development_branch(FALSE, lsOk, "ok")
       IN /\ comments' = [comments EXCEPT !["issue"] = r.comments]
          /\ cwd' = r.cwd
          /\ IF Raised(r.exc)
             THEN Caught(r.exc) /\ UNCHANGED <<prOpen, prHead, did>>
             ELSE IF ghOk /\ "devpr" \notin prOpen
             THEN /\ prOpen' = prOpen \cup {"devpr"}
                  /\ prHead' = [prHead EXCEPT !["devpr"] = currentBranch]
                  /\ did' = did \cup {"pr_created"}
                  /\ pc' = DevNext("create_pr")
                  /\ UNCHANGED fr
             ELSE /\ Caught(Exc("RuntimeError", {}))
                  /\ UNCHANGED <<prOpen, prHead, did>>
  /\ UNCHANGED <<labels, gitVars, originUrl, humans, ops, entry, result>>

\* lines 740-743: the "Created pull request" comment on the issue
DevIssueComment ==
  /\ UNCHANGED <<callVars, auxVars>>
  /\ At("develop", "issue_comment")
  /\ \E ok \in BOOLEAN :
       IF ok
       THEN /\ comments' = [comments EXCEPT
                              !["issue"] = write_issue_response(@, {"prc"})]
            /\ did' = did \cup {"issue_comment"}
            /\ pc' = DevNext("issue_comment")
            /\ UNCHANGED fr
       ELSE Caught(Exc("GithubException", {})) /\ UNCHANGED <<comments, did>>
  /\ UNCHANGED <<labels, prOpen, prHead, gitVars, cwd, originUrl, humans, ops,
                 entry, result>>

\* line 746: the under_development label
DevLabel ==
  /\ UNCHANGED <<callVars, auxVars>>
  /\ At("develop", "label")
  /\ \E ok \in BOOLEAN :
       IF ok
       THEN /\ labels' = [labels EXCEPT
                            !["issue"] = @ \cup {"under_development"}]
            /\ did' = did \cup {"label"}
            /\ pc' = DevNext("label")
            /\ UNCHANGED fr
       ELSE Caught(Exc("GithubException", {})) /\ UNCHANGED <<labels, did>>
  /\ UNCHANGED <<comments, prOpen, prHead, gitVars, cwd, originUrl, humans, ops,
                 entry, result>>

\* write_pr_comment (666-687): the cleaned, signed report on the pull request
write_pr_comment(cs, marks) ==
  create_issue_comment(cs, IF "bot" \in marks THEN marks
                           ELSE marks \cup {"bot"})

\* lines 749-757: the report on the new pull request
DevPrComment ==
  /\ UNCHANGED <<callVars, auxVars>>
  /\ At("develop", "pr_comment")
  /\ \E ok \in BOOLEAN :
       IF ok
       THEN /\ comments' = [comments EXCEPT
                              !["devpr"] = write_pr_comment(@, {})]
            /\ did' = did \cup {"pr_comment"}
            /\ pc' = DevNext("pr_comment")
            /\ UNCHANGED fr
       ELSE Caught(Exc("GithubException", {})) /\ UNCHANGED <<comments, did>>
  /\ UNCHANGED <<labels, prOpen, prHead, gitVars, cwd, originUrl, humans, ops,
                 entry, result>>

\* lines 759-762 and 784: back to the main branch, chdir back, (True, None)
DevBack ==
  /\ UNCHANGED <<callVars, auxVars>>
  /\ At("develop", "back")
  /\ \E gitOk \in BOOLEAN :
       LET b == back_to_master_branch(localHeads, currentBranch, gitOk)
       IN IF Raised(b.exc)
          THEN Caught(b.exc) /\ UNCHANGED <<currentBranch, cwd, did, result>>
          ELSE /\ currentBranch' = b.cur
               /\ cwd' = fr.original_dir
               /\ did' = did \cup {"back_to_master"}
               /\ Finish("develop_issue_flow", "success", NoExc)
  /\ UNCHANGED <<hubVars, localHeads, tracking, remoteHeads, ghLinked,
                 originUrl, humans, ops, entry>>

\* lines 764-782: the handler: back to main and delete the branch (both
\* skipped past the first failure), chdir back, raise
DevRollback ==
  /\ UNCHANGED <<callVars, auxVars>>
  /\ At("develop", "rollback")
  /\ \E gitOk \in BOOLEAN :
       LET b == back_to_master_branch(localHeads, currentBranch, gitOk)
       IN /\ currentBranch' = b.cur
          /\ IF Raised(b.exc)
             THEN /\ did' = did \cup {"cleanup_failed"}
                  /\ UNCHANGED localHeads
             ELSE /\ localHeads' = delete_branch(fr.branch, localHeads)
                  /\ did' = did \cup {"back_to_master"}
                       \cup {"delete_branch" : x \in {fr.branch} \cap localHeads}
  /\ cwd' = fr.original_dir
  /\ Finish("develop_issue_flow", "error", Wrapped(fr.exc))
  /\ UNCHANGED <<hubVars, tracking, remoteHeads, ghLinked, originUrl, humans, ops,
                 entry>>

\* ----------------------------------------- standalone_pr_flow (910-984)
\* lines 917-925: the pull request's branch, chdir, checkout
SoloStartVia(direct) ==
  /\ UNCHANGED <<callVars, auxVars>>
  /\ Enter("solo", direct)
  /\ entry' = Snapshot
  /\ \E p \in SoloItems :
       LET co == checkout_branch(prHead[p], FALSE, localHeads, tracking,
                                 currentBranch)
       IN /\ Room(p)
          /\ cwd' = "repo"
          /\ localHeads' = co.heads
          /\ currentBranch' = co.cur
          /\ did' = {"checkout" : x \in {co.cur} \ {currentBranch}}
          /\ IF Raised(co.exc)
             THEN Finish("standalone_pr_flow", "error", Wrapped(co.exc))
             ELSE /\ pc' = "summarize"
                  /\ fr' = Frame("solo", p, prHead[p], cwd)
                  /\ UNCHANGED result
  /\ UNCHANGED <<hubVars, tracking, remoteHeads, ghLinked, originUrl, humans>>

\* standalone_pr_flow called directly, and called by process_issue
SoloStart == SoloStartVia(TRUE)
SoloCalled == SoloStartVia(FALSE)

\* lines 927-934: summarize_relevant_comments and
\* generate_edit_command_response, covered by the outer handler only
SoloSummarize ==
  /\ UNCHANGED <<callVars, auxVars>>
  /\ At("solo", "summarize")
  /\ \E ok \in BOOLEAN :
       IF ok THEN /\ pc' = "generate" /\ UNCHANGED <<fr, result>>
       ELSE Finish("standalone_pr_flow", "error",
                   Wrapped(Exc("LLMError", {})))
  /\ UNCHANGED <<hubVars, gitVars, cwd, originUrl, humans, ops, entry, did>>

SoloGenerate ==
  /\ UNCHANGED <<callVars, auxVars>>
  /\ At("solo", "generate")
  /\ \E ok \in BOOLEAN :
       IF ok THEN /\ pc' = "aider" /\ UNCHANGED <<fr, result>>
       ELSE Finish("standalone_pr_flow", "error",
                   Wrapped(Exc("LLMError", {})))
  /\ UNCHANGED <<hubVars, gitVars, cwd, originUrl, humans, ops, entry, did>>

\* line 938
SoloAider ==
  /\ UNCHANGED <<callVars, auxVars>>
  /\ At("solo", "aider")
  /\ \E outcome \in AiderOutcomes :
       LET a == run_aider(outcome, cwd)
       IN /\ cwd' = a.cwd
          /\ did' = did \cup {"aider" : x \in {a.ran} \ {FALSE}}
                        \cup {"aider_nochange" : x \in {outcome} \cap {"nochange"}}
          /\ IF Raised(a.exc) THEN Caught(a.exc)
             ELSE pc' = "push" /\ UNCHANGED fr
  /\ UNCHANGED <<hubVars, gitVars, originUrl, humans, ops, entry, result>>

\* lines 940-945: push, reporting to the item; the result is not looked at
SoloPush ==
  /\ UNCHANGED <<callVars, auxVars>>
  /\ At("solo", "push")
  /\ \E outcome \in PushOutcomes :
       LET r == push_changes_with_authentication(fr.item, TRUE, fr.branch,
                                                 outcome)
       IN /\ comments' = [comments EXCEPT ![fr.item] = r.comments]
          /\ originUrl' = r.url
          /\ remoteHeads' = r.remoteHeads
          /\ tracking' = r.tracking
          /\ did' = did \cup (IF outcome = "notoken" THEN {}
                              ELSE {"push_attempt"})
                        \cup (IF r.ret = "ok" THEN {"push_ok"} ELSE {})
                        \cup (IF r.ret = "rejected" \/ outcome = "rejected"
                              THEN {"push_rejected"} ELSE {})
          /\ IF Raised(r.exc) THEN Caught(r.exc)
             ELSE pc' = "pr_comment" /\ fr' = [fr EXCEPT !.pushRet = r.ret]
  /\ UNCHANGED <<labels, prOpen, prHead, localHeads, ghLinked, currentBranch,
                 cwd, humans, ops, entry, result>>

\* lines 947-956
SoloPrComment ==
  /\ UNCHANGED <<callVars, auxVars>>
  /\ At("solo", "pr_comment")
  /\ \E ok \in BOOLEAN :
       IF ok
       THEN /\ comments' = [comments EXCEPT
                              ![fr.item] = write_pr_comment(@, {})]
            /\ did' = did \cup {"pr_comment"}
            /\ pc' = "back"
            /\ UNCHANGED fr
       ELSE Caught(Exc("GithubException", {})) /\ UNCHANGED <<comments, did>>
  /\ UNCHANGED <<labels, prOpen, prHead, gitVars, cwd, originUrl, humans, ops,
                 entry, result>>

\* lines 958-961 and 978
SoloBack ==
  /\ UNCHANGED <<callVars, auxVars>>
  /\ At("solo", "back")
  /\ \E gitOk \in BOOLEAN :
       LET b == back_to_master_branch(localHeads, currentBranch, gitOk)
       IN IF Raised(b.exc)
          THEN Caught(b.exc) /\ UNCHANGED <<currentBranch, cwd, did, result>>
          ELSE /\ currentBranch' = b.cur
               /\ cwd' = fr.original_dir
               /\ did' = did \cup {"back_to_master"}
               /\ Finish("standalone_pr_flow", "success", NoExc)
  /\ UNCHANGED <<hubVars, localHeads, tracking, remoteHeads, ghLinked,
                 originUrl, humans, ops, entry>>

\* lines 963-976, re-raised through 980-984
SoloRollback ==
  /\ UNCHANGED <<callVars, auxVars>>
  /\ At("solo", "rollback")
  /\ \E gitOk \in BOOLEAN :
       LET b == back_to_master_branch(localHeads, currentBranch, gitOk)
       IN /\ currentBranch' = b.cur
          /\ did' = IF Raised(b.exc) THEN did \cup {"cleanup_failed"}
                    ELSE did \cup {"back_to_master"}
  /\ cwd' = fr.original_dir
  /\ Finish("standalone_pr_flow", "error", Wrapped(fr.exc))
  /\ UNCHANGED <<hubVars, localHeads, tracking, remoteHeads, ghLinked,
                 originUrl, humans, ops, entry>>

\* ------------------------------------ respond_pr_comment_flow (787-907)
\* has_pr_creation_comment: some comment of the issue announces the pull
\* request; its URL names the pull request develop_issue_flow opened
has_pr_creation_comment(cs) == \E k \in DOMAIN cs : "prc" \in cs[k]

\* lines 793-834 and 903-907: read the pull request, its comments and its
\* branch; skip unless a comment follows the latest bot comment
RespStartVia(direct) ==
  /\ UNCHANGED <<callVars, auxVars>>
  /\ Enter("respond", direct)
  /\ has_pr_creation_comment(comments["issue"])
  /\ "devpr" \in prOpen
  /\ Room("devpr")
  /\ entry' = Snapshot
  /\ did' = {}
  /\ \E apiOk \in BOOLEAN :
       IF ~apiOk
       THEN /\ Finish("respond_pr_comment_flow", "error",
                      Wrapped(Exc("GithubException", {})))
            /\ UNCHANGED comments
       ELSE IF prHead["devpr"] # "None" /\ user_feedback_bool(comments["devpr"])
       THEN /\ pc' = "checkout"
            /\ fr' = Frame("respond", "devpr", prHead["devpr"], cwd)
            /\ UNCHANGED <<result, comments>>
       ELSE /\ Finish("respond_pr_comment_flow", "skip", NoExc)
            /\ comments' = [comments EXCEPT
                              !["devpr"] = tab_print(@, {"bot"})]
  /\ UNCHANGED <<labels, prOpen, prHead, gitVars, cwd, originUrl, humans>>

\* respond_pr_comment_flow called directly, and called by process_issue
RespStart == RespStartVia(TRUE)
RespCalled == RespStartVia(FALSE)

\* lines 839-848: chdir, checkout, `git pull origin <branch>`
RespCheckout ==
  /\ UNCHANGED <<callVars, auxVars>>
  /\ At("respond", "checkout")
  /\ \E pullOk \in BOOLEAN :
       LET co == checkout_branch(fr.branch, FALSE, localHeads, tracking,
                                 currentBranch)
       IN /\ cwd' = "repo"
          /\ localHeads' = co.heads
          /\ currentBranch' = co.cur
          /\ did' = did \cup {"checkout" : x \in {co.cur} \ {currentBranch}}
          /\ fr' = [fr EXCEPT !.original_dir = cwd,
                              !.exc = IF Raised(co.exc) THEN co.exc
                                      ELSE IF ~pullOk
                                      THEN Exc("CalledProcessError", {})
                                      ELSE NoExc]
          /\ pc' = IF Raised(co.exc) \/ ~pullOk THEN "rollback"
                   ELSE "summarize"
  /\ UNCHANGED <<hubVars, tracking, remoteHeads, ghLinked, originUrl, humans, ops,
                 entry, result>>

\* lines 852-856
RespSummarize ==
  /\ UNCHANGED <<callVars, auxVars>>
  /\ At("respond", "summarize")
  /\ \E ok \in BOOLEAN :
       IF ok THEN pc' = "generate" /\ UNCHANGED fr
       ELSE Caught(Exc("LLMError", {}))
  /\ UNCHANGED <<hubVars, gitVars, cwd, originUrl, humans, ops, entry, did, result>>

\* lines 859-860
RespGenerate ==
  /\ UNCHANGED <<callVars, auxVars>>
  /\ At("respond", "generate")
  /\ \E ok \in BOOLEAN :
       IF ok THEN pc' = "aider" /\ UNCHANGED fr
       ELSE Caught(Exc("LLMError", {}))
  /\ UNCHANGED <<hubVars, gitVars, cwd, originUrl, humans, ops, entry, did, result>>

\* line 863
RespAider ==
  /\ UNCHANGED <<callVars, auxVars>>
  /\ At("respond", "aider")
  /\ \E outcome \in AiderOutcomes :
       LET a == run_aider(outcome, cwd)
       IN /\ cwd' = a.cwd
          /\ did' = did \cup {"aider" : x \in {a.ran} \ {FALSE}}
                        \cup {"aider_nochange" : x \in {outcome} \cap {"nochange"}}
          /\ IF Raised(a.exc) THEN Caught(a.exc)
             ELSE pc' = "push" /\ UNCHANGED fr
  /\ UNCHANGED <<hubVars, gitVars, originUrl, humans, ops, entry, result>>

\* lines 865-869: push, reporting to the pull request; result not looked at
RespPush ==
  /\ UNCHANGED <<callVars, auxVars>>
  /\ At("respond", "push")
  /\ \E outcome \in PushOutcomes :
       LET r == push_changes_with_authentication(fr.item, FALSE, fr.branch,
                                                 outcome)
       IN /\ comments' = [comments EXCEPT ![fr.item] = r.comments]
          /\ originUrl' = r.url
          /\ remoteHeads' = r.remoteHeads
          /\ tracking' = r.tracking
          /\ did' = did \cup (IF outcome = "notoken" THEN {}
                              ELSE {"push_attempt"})
                        \cup (IF r.ret = "ok" THEN {"push_ok"} ELSE {})
                        \cup (IF r.ret = "rejected" \/ outcome = "rejected"
                              THEN {"push_rejected"} ELSE {})
          /\ IF Raised(r.exc) THEN Caught(r.exc)
             ELSE pc' = "pr_comment" /\ fr' = [fr EXCEPT !.pushRet = r.ret]
  /\ UNCHANGED <<labels, prOpen, prHead, localHeads, ghLinked, currentBranch,
                 cwd, humans, ops, entry, result>>

\* lines 871-879
RespPrComment ==
  /\ UNCHANGED <<callVars, auxVars>>
  /\ At("respond", "pr_comment")
  /\ \E ok \in BOOLEAN :
       IF ok
       THEN /\ comments' = [comments EXCEPT
                              ![fr.item] = write_pr_comment(@, {})]
            /\ did' = did \cup {"pr_comment"}
            /\ pc' = "back"
            /\ UNCHANGED fr
       ELSE Caught(Exc("GithubException", {})) /\ UNCHANGED <<comments, did>>
  /\ UNCHANGED <<labels, prOpen, prHead, gitVars, cwd, originUrl, humans, ops,
                 entry, result>>

\* lines 881-887
RespBack ==
  /\ UNCHANGED <<callVars, auxVars>>
  /\ At("respond", "back")
  /\ \E gitOk \in BOOLEAN :
       LET b == back_to_master_branch(localHeads, currentBranch, gitOk)
       IN IF Raised(b.exc)
          THEN Caught(b.exc) /\ UNCHANGED <<currentBranch, cwd, did, result>>
          ELSE /\ currentBranch' = b.cur
               /\ cwd' = fr.original_dir
               /\ did' = did \cup {"back_to_master"}
               /\ Finish("respond_pr_comment_flow", "success", NoExc)
  /\ UNCHANGED <<hubVars, localHeads, tracking, remoteHeads, ghLinked,
                 originUrl, humans, ops, entry>>

\* lines 889-902
RespRollback ==
  /\ UNCHANGED <<callVars, auxVars>>
  /\ At("respond", "rollback")
  /\ \E gitOk \in BOOLEAN :
       LET b == back_to_master_branch(localHeads, currentBranch, gitOk)
       IN /\ currentBranch' = b.cur
          /\ did' = IF Raised(b.exc) THEN did \cup {"cleanup_failed"}
                    ELSE did \cup {"back_to_master"}
  /\ cwd' = fr.original_dir
  /\ Finish("respond_pr_comment_flow", "error", Wrapped(fr.exc))
  /\ UNCHANGED <<hubVars, localHeads, tracking, remoteHeads, ghLinked,
                 originUrl, humans, ops, entry>>

\* ----------------------------------------------------------------- triggers
\* has_bot_response: some comment carries the bot's signature
has_bot_response(cs) == \E k \in DOMAIN cs : "bot" \in cs[k]

\* has_user_feedback: a comment follows the latest bot comment
has_user_feedback(cs) == user_feedback_bool(cs)

\* a trigger test that takes any latest comment for the marker
has_develop_issue_trigger_any_latest(cs) == cs # <<>>

\* has_develop_issue_trigger: the latest comment holds "[ develop_issue ]"
has_develop_issue_trigger(cs) == cs # <<>> /\ "dev" \in Last(cs)

\* agents.can_push_to_branch(repo_path, branch): what the check may answer
CanPushAnswers == BOOLEAN

\* has_generate_edit_command_trigger: the pair (trigger_found, message) it
\* returns, or the exception of its branch lookup, and the state it leaves.
\* The marker is looked for in any comment; the lookup runs with
\* create=False only when it was found.
has_generate_edit_command_trigger(lsOk, canPush) ==
  LET cs == comments["issue"]
      trigger_found == \E k \in DOMAIN cs : "gec" \in cs[k]
      r == get_development_branch(FALSE, lsOk, "ok")
  IN IF ~trigger_found
     THEN [exc |-> NoExc, value |-> <<FALSE, "">>, comments |-> cs,
           cwd |-> cwd]
     ELSE IF Raised(r.exc)
     THEN [exc |-> r.exc, value |-> <<>>, comments |-> r.comments,
           cwd |-> r.cwd]
     ELSE IF r.ret # "None" /\ ~canPush
     THEN [exc |-> NoExc, value |-> <<TRUE, "Cannot push to branch">>,
           comments |-> r.comments, cwd |-> r.cwd]
     ELSE [exc |-> NoExc, value |-> <<trigger_found, "">>,
           comments |-> r.comments, cwd |-> r.cwd]

\* a check_triggers that looks for user feedback first
check_triggers_feedback_first(gec, cs) ==
  IF has_user_feedback(cs) THEN "feedback"
  ELSE IF Len(gec) > 0 THEN "generate_edit_command"
  ELSE IF ~has_bot_response(cs) THEN "new_response"
  ELSE "None"

\* check_triggers (624-644): `if <pair>:` tests the pair itself, and a
\* non-empty tuple is true
check_triggers(gec, cs) ==
  IF Len(gec) > 0 THEN "generate_edit_command"
  ELSE IF has_user_feedback(cs) THEN "feedback"
  ELSE IF ~has_bot_response(cs) THEN "new_response"
  ELSE "None"

\* a selector whose last branch falls back to the new-issue response
response_selector_fallback(trigger) ==
  CASE trigger = "feedback" -> "generate_feedback_response"
    [] trigger = "generate_edit_command" -> "generate_edit_command_response"
    [] OTHER -> "generate_new_response"

\* response_selector (647-663)
response_selector(trigger) ==
  CASE trigger = "feedback" -> "generate_feedback_response"
    [] trigger = "generate_edit_command" -> "generate_edit_command_response"
    [] trigger = "new_response" -> "generate_new_response"
    [] OTHER -> "None"

\* process_issue lines 1064-1066 for an issue: the trigger is evaluated and
\* the response function selected
CallCheckTriggers ==
  /\ UNCHANGED <<callVars, auxVars>>
  /\ StartOp
  /\ \E lsOk \in BOOLEAN, canPush \in CanPushAnswers :
       LET g == has_generate_edit_command_trigger(lsOk, canPush)
           cs == g.comments
           trigger == check_triggers(g.value, cs)
       IN /\ comments' = [comments EXCEPT !["issue"] = cs]
          /\ cwd' = g.cwd
          /\ IF Raised(g.exc)
             THEN /\ result' = Outcome("check_triggers", "raised", g.exc,
                                       "None",
                                       IF g.exc.type = "GitCommandError"
                                       THEN "ls_failed" ELSE "ok")
                  /\ did' = {}
             ELSE /\ result' = Outcome("check_triggers", "returned", NoExc,
                                       trigger, "ok")
                  /\ did' = {response_selector(trigger)}
  /\ entry' = Snapshot
  /\ UNCHANGED <<labels, prOpen, prHead, gitVars, originUrl, humans, pc, fr>>

\* the values response_selector is called with: the triggers check_triggers
\* names, its None, and names no handler is wired to
TriggerValues == {"feedback", "generate_edit_command", "new_response", "None",
                  "develop_issue", "pr_comment_followup"}

\* process_issue lines 1066-1080 for a trigger value: the handler is
\* selected; without one the item is skipped, else the response is generated
\* and posted, and a failure is posted as an error comment
SelectAndRespond ==
  /\ UNCHANGED <<callVars, auxVars>>
  /\ StartOp
  /\ Room("issue")
  /\ entry' = Snapshot
  /\ \E trigger \in TriggerValues, llmOk \in BOOLEAN :
       LET response_func == response_selector(trigger)
           cs == comments["issue"]
       IN IF response_func = "None"
          THEN /\ result' = Outcome("response_selector", "skip", NoExc,
                                    response_func, trigger)
               /\ did' = {}
               /\ UNCHANGED comments
          ELSE IF ~llmOk
          THEN /\ result' = Outcome("response_selector", "error",
                                    Exc("LLMError", {}), response_func,
                                    trigger)
               /\ did' = {response_func, "error_comment"}
               /\ comments' = [comments EXCEPT
                                 !["issue"] = write_issue_response(
                                                cs, {"bot", "trace"})]
          ELSE /\ result' = Outcome("response_selector", "success", NoExc,
                                    response_func, trigger)
               /\ did' = {response_func, "response_posted"}
               /\ comments' = [comments EXCEPT
                                 !["issue"] = write_issue_response(cs, {})]
  /\ UNCHANGED <<labels, prOpen, prHead, gitVars, cwd, originUrl, humans, pc,
                 fr>>

\* an earlier cycle posted a response on the issue (process_issue line 1071)
BotResponse ==
  /\ UNCHANGED <<callVars, auxVars>>
  /\ pc = "idle"
  /\ Room("issue")
  /\ comments' = [comments EXCEPT
                    !["issue"] = write_issue_response(@, {"bot"})]
  /\ Forget
  /\ UNCHANGED <<labels, prOpen, prHead, gitVars, cwd, originUrl, humans,
                 ops, pc, fr>>

\* ------------------------------------------------- process_issue (987-1080)
\* git_utils.is_pull_request (499-510): its one statement reads the name
\* `issue`, which neither the function nor the module binds
is_pull_request(i) == [exc |-> Exc("NameError", {}), ret |-> FALSE]

\* the is_pull_request the repository's tests bind in response_agent: it
\* answers whether the item is a pull request
patched_is_pull_request(i) == [exc |-> NoExc, ret |-> i \in Prs]

\* the call of response_agent.is_pull_request (lines 1000 and 1187)
classify(i) ==
  IF classifier = "source" THEN is_pull_request(i)
  ELSE patched_is_pull_request(i)

\* triggers.has_blech_bot_tag or the title test of lines 1005-1006
has_bot_mention(i) == "blech_bot" \in labels[i] \/ i \in titled

\* triggers.has_error_comment: the latest comment holds a traceback
has_error_comment(cs) == cs # <<>> /\ "trace" \in Last(cs)

\* a selection without the already-responded test
process_issue_plan_no_responded_test(i, is_pr) ==
  LET cs == comments[i]
  IN IF ~has_bot_mention(i) THEN "no_label"
     ELSE IF has_error_comment(cs) THEN "error_reported"
     ELSE IF is_pr THEN "solo"
     ELSE IF has_pr_creation_comment(cs) THEN "respond"
     ELSE IF has_develop_issue_trigger(cs) THEN "develop"
     ELSE "triggers"

\* lines 1004-1064 of process_issue: what the item is skipped for, or the
\* workflow it is handed to
process_issue_plan(i, is_pr) ==
  LET cs == comments[i]
      pr_creation_comment_bool == has_pr_creation_comment(cs)
      already_responded == has_bot_response(cs) /\ ~has_user_feedback(cs)
  IN IF ~has_bot_mention(i) THEN "no_label"
     ELSE IF already_responded /\ ~pr_creation_comment_bool
     THEN "already_responded"
     ELSE IF has_error_comment(cs) THEN "error_reported"
     ELSE IF is_pr THEN "solo"
     ELSE IF pr_creation_comment_bool THEN "respond"
     ELSE IF has_develop_issue_trigger(cs) THEN "develop"
     ELSE "triggers"

WorkflowOf(plan) ==
  CASE plan = "solo" -> "standalone_pr_flow"
    [] plan = "respond" -> "respond_pr_comment_flow"
    [] plan = "develop" -> "develop_issue_flow"
    [] OTHER -> "None"

\* the items repo.get_issues(state='open') lists
OpenItems == {"issue"} \cup prOpen

\* the item's comments and labels when the last operation started
EntryComments(i) == entry.hub[1][i]

EntryLabels(i) == entry.hub[2][i]

\* the comments with a traceback that thread cs holds after its first n
TracesAfter(cs, n) ==
  Cardinality({k \in DOMAIN cs : k > n /\ "trace" \in cs[k]})

\* process_issue returns or raises: control goes back to the caller.
\* run.won keeps the items it succeeded on with the number of user comments
\* written by then; result.again tells that the item had succeeded before
\* and no user has commented since; run.last and result.prev keep this call
\* and the one before it; n is the length of the item's thread when the call
\* started
PiFinish(i, n, status, exc, ret) ==
  /\ pc' = IF run.repo THEN "repo_after" ELSE "idle"
  /\ fr' = NoFrame
  /\ run' = [run EXCEPT !.item = "none", !.call = "none",
                         !.won = IF status = "success"
                                 THEN @ \cup {<<i, humans>>} ELSE @,
                         !.last = [item |-> i, status |-> status,
                                   humans |-> humans, len |-> n]]
  /\ result' = [Outcome("process_issue", status, exc, ret, classifier)
                  EXCEPT !.item = i, !.again = <<i, humans>> \in run.won,
                         !.prev = run.last]

\* git_utils.add_signature_to_comment(text, model): the text with the bot's
\* signature appended
add_signature_to_comment(marks) == marks \cup {"bot"}

\* lines 1073-1080: the handler posts the error with its traceback on the
\* item and returns (False, "ERROR: ..."); postOk: GitHub takes the comment
PiExcept(i, n, cs, e, ret, postOk, done) ==
  IF postOk
  THEN /\ comments' = [comments EXCEPT
                         ![i] = write_issue_response(
                                  cs, add_signature_to_comment(
                                        e.marks \cup {"trace"}))]
       /\ did' = done \cup {"error_comment"}
       /\ PiFinish(i, n, "error", e, ret)
  ELSE /\ comments' = [comments EXCEPT ![i] = cs]
       /\ did' = done
       /\ PiFinish(i, n, "raised", Exc("GithubException", {}), ret)

\* process_issue up to the call of a workflow, and all of its response
\* path (check_triggers, response_selector, the response function, the post)
PiStartVia(direct) ==
  /\ \E i \in OpenItems :
       /\ IF direct THEN StartOp /\ run.item = "none" /\ ~run.repo
          ELSE pc = "repo_call" /\ i = Head(run.todo) /\ UNCHANGED ops
       /\ Room(i)
       /\ entry' = Snapshot
       /\ \E lsOk \in BOOLEAN, canPush \in CanPushAnswers, llmOk \in BOOLEAN,
             postOk \in BOOLEAN :
            LET c == classify(i)
                n == Len(comments[i])
                plan == process_issue_plan(i, c.ret)
                g == has_generate_edit_command_trigger(lsOk, canPush)
                trigger == check_triggers(g.value, g.comments)
                response_func == response_selector(trigger)
            IN IF Raised(c.exc)
               THEN /\ PiFinish(i, n, "raised", c.exc, "is_pull_request")
                    /\ did' = {}
                    /\ UNCHANGED <<comments, cwd>>
               ELSE IF plan \in {"no_label", "already_responded",
                                 "error_reported"}
               THEN /\ PiFinish(i, n, "skip", NoExc, plan)
                    /\ did' = {}
                    /\ UNCHANGED <<comments, cwd>>
               ELSE IF plan \in {"solo", "respond", "develop"}
               THEN /\ plan = "respond" => Room("devpr")
                    /\ pc' = "dispatch"
                    /\ run' = [run EXCEPT !.item = i, !.call = plan]
                    /\ did' = {}
                    /\ UNCHANGED <<comments, cwd, fr, result>>
               ELSE /\ cwd' = g.cwd
                    /\ IF Raised(g.exc)
                       THEN PiExcept(i, n, g.comments, g.exc,
                                     "check_triggers",
                                     postOk, {})
                       ELSE IF response_func = "None"
                       THEN /\ PiFinish(i, n, "skip", NoExc, "no_trigger")
                            /\ did' = {}
                            /\ comments' = [comments EXCEPT ![i] = g.comments]
                       ELSE IF ~llmOk
                       THEN PiExcept(i, n, g.comments,
                                     Exc("LLMError", {}),
                                     response_func, postOk, {response_func})
                       ELSE /\ comments' =
                                 [comments EXCEPT
                                    ![i] = write_issue_response(g.comments, {})]
                            /\ did' = {response_func, "response_posted"}
                            /\ PiFinish(i, n, "success", NoExc, response_func)
  /\ UNCHANGED <<labels, prOpen, prHead, gitVars, originUrl, humans, titled,
                 classifier, auxVars>>

\* the workflow process_issue called has returned or raised (lines 1031-1060
\* return its result; 1073-1080 handle its exception)
PiReturn ==
  /\ pc = "returned"
  /\ \E postOk \in BOOLEAN :
       IF result.status = "error"
       THEN PiExcept(run.item, Len(EntryComments(run.item)),
                     comments[run.item], result.exc, result.op,
                     postOk, did)
       ELSE /\ PiFinish(run.item, Len(EntryComments(run.item)),
                       result.status, NoExc, result.op)
            /\ UNCHANGED <<comments, did>>
  /\ UNCHANGED <<labels, prOpen, prHead, gitVars, cwd, originUrl, humans, ops,
                 entry, titled, classifier, auxVars>>

\* process_issue called directly, and called by process_repository
PiStart == PiStartVia(TRUE)
PiCalled == PiStartVia(FALSE)

\* the workflows as process_issue runs them
CalledFlows ==
  \/ DevCalled \/ DevGenerate \/ DevBranch \/ DevAider \/ DevPush
  \/ DevCreatePr \/ DevIssueComment \/ DevLabel \/ DevPrComment
  \/ DevBack \/ DevRollback
  \/ SoloCalled \/ SoloSummarize \/ SoloGenerate \/ SoloAider \/ SoloPush
  \/ SoloPrComment \/ SoloBack \/ SoloRollback
  \/ RespCalled \/ RespCheckout \/ RespSummarize \/ RespGenerate
  \/ RespAider \/ RespPush \/ RespPrComment \/ RespBack \/ RespRollback

\* -------------------------------------------- process_repository (1145-1208)
\* the order repo.get_issues(state='open') lists items in: newest first
ListingOrder == <<"devpr", "pr", "issue">>

RECURSIVE Listing(_, _)
Listing(S, k) ==
  IF k > Len(ListingOrder) THEN <<>>
  ELSE (IF ListingOrder[k] \in S THEN <<ListingOrder[k]>> ELSE <<>>)
         \o Listing(S, k + 1)

\* the default branch GitHub reports for the repository
default_branch == CHOOSE m \in MainNames : m \in remoteHeads

RepoFinish(env) ==
  /\ pc' = "idle"
  /\ run' = [run EXCEPT !.repo = FALSE, !.todo = <<>>]
  /\ result' = Outcome("process_repository", "returned", NoExc, "None", env)

\* lines 1154-1183: the default branch is checked out, the clone is updated
\* (git pull fetches origin's heads), the open items are listed
RepoStart ==
  /\ StartOp
  /\ run.item = "none" /\ ~run.repo
  /\ entry' = Snapshot
  /\ did' = {}
  /\ \E pullOk \in BOOLEAN :
       LET co == checkout_branch(default_branch, FALSE, localHeads, tracking,
                                 currentBranch)
       IN /\ localHeads' = co.heads
          /\ currentBranch' = co.cur
          /\ IF Raised(co.exc) \/ ~pullOk
             THEN /\ RepoFinish("setup_failed")
                  /\ UNCHANGED tracking
             ELSE /\ tracking' = tracking \cup remoteHeads
                  /\ pc' = "repo_loop"
                  /\ run' = [NoRun EXCEPT !.won = run.won,
                                          !.last = run.last,
                                          !.repo = TRUE,
                                          !.todo = Listing(OpenItems, 1),
                                          !.items = OpenItems]
                  /\ UNCHANGED result
  /\ UNCHANGED <<hubVars, remoteHeads, ghLinked, cwd, originUrl, humans, fr,
                 titled, classifier, auxVars>>

\* lines 1186-1190: the loop takes the next item, asks is_pull_request for
\* its kind and calls process_issue; an exception here reaches the handler
\* of lines 1206-1208, which ends the pass
RepoNext ==
  /\ pc = "repo_loop"
  /\ IF run.todo = <<>>
     THEN RepoFinish("listed")
     ELSE IF Raised(classify(Head(run.todo)).exc)
     THEN RepoFinish("aborted")
     ELSE /\ pc' = "repo_call"
          /\ run' = [run EXCEPT !.done = @ \cup {Head(run.todo)},
                                 !.log = Append(@, Head(run.todo))]
          /\ UNCHANGED result
  /\ UNCHANGED <<hubVars, gitVars, cwd, originUrl, humans, ops, fr, entry, did,
                 titled, classifier, auxVars>>

\* lines 1190-1204: process_issue returned, its outcome is printed and the
\* loop goes on; or it raised, and the handler of 1206-1208 ends the pass
RepoAfter ==
  /\ pc = "repo_after"
  /\ IF result.status = "raised"
     THEN RepoFinish("aborted")
     ELSE /\ pc' = "repo_loop"
          /\ run' = [run EXCEPT !.todo = Tail(@)]
          /\ UNCHANGED result
  /\ UNCHANGED <<hubVars, gitVars, cwd, originUrl, humans, ops, fr, entry, did,
                 titled, classifier, auxVars>>

\* ------------------------------------------------- publishing a text
\* A text is a sequence of tokens: "w" other words, "TERM" the word
\* TERMINATE, "msig" the signature naming the configured model, "osig" a
\* signature naming another model, "bsig" the signature without a model.
Tokens == {"w", "TERM", "msig", "osig", "bsig"}
ModelSigs == {"msig", "osig"}
Sigs == ModelSigs \cup {"bsig"}
Texts == UNION {[1..n -> Tokens] : n \in 0..MaxText}

Holds(t, toks) == \E k \in DOMAIN t : t[k] \in toks
Front(t) == SubSeq(t, 1, Len(t) - 1)
NotTerminate(tok) == tok # "TERM"

\* clean_response (252-273): every TERMINATE word goes, then a signature with
\* a model at the end of the text, then one without a model at the end
clean_response(t) ==
  LET a == SelectSeq(t, NotTerminate)
      b == IF a # <<>> /\ Last(a) \in ModelSigs THEN Front(a) ELSE a
  IN IF b # <<>> /\ Last(b) = "bsig" THEN Front(b) ELSE b

\* the end of generate_new_response, generate_feedback_response and
\* generate_edit_command_response (425-429, 535-539, 612-616), and
\* write_pr_comment (682-687): the text is cleaned and the signature of the
\* configured model appended unless the text holds it
sign_response(t) ==
  LET c == clean_response(t)
  IN IF Holds(c, {"msig"}) THEN c ELSE Append(c, "msig")

\* the body write_issue_response (git_utils.py 106-126) creates: the text is
\* cleaned, and a signature appended unless one of either kind is found in
\* it; modelKnown: the import of llm_config succeeds
signed_body(t, modelKnown) ==
  LET c == clean_response(t)
  IN IF Holds(c, Sigs) THEN c
     ELSE Append(c, IF modelKnown THEN "msig" ELSE "bsig")

\* the report of a workflow (748-756, 948-956): the signed edit command
\* between the heading and the editor's output
workflow_report(t) == <<"w">> \o sign_response(t) \o <<"w">>

SigCount(t) == Cardinality({k \in DOMAIN t : t[k] \in Sigs})

\* the LLM produces a text
LlmGenerates ==
  /\ pc = "idle"
  /\ \E t \in Texts : text' = t
  /\ posted' = <<>>
  /\ Forget
  /\ UNCHANGED <<hubVars, gitVars, cwd, originUrl, humans, ops, pc, fr,
                 callVars, worktree, diverged>>

\* process_issue lines 1070-1071: the response function signs the text and
\* write_issue_response publishes it
PublishResponse ==
  /\ pc = "idle"
  /\ \E modelKnown \in BOOLEAN :
       posted' = signed_body(sign_response(text), modelKnown)
  /\ result' = Outcome("publish_response", "returned", NoExc, "None", "ok")
  /\ UNCHANGED <<hubVars, gitVars, cwd, originUrl, humans, ops, pc, fr,
                 entry, did, callVars, text, worktree, diverged>>

\* the workflows' report on the pull request through write_pr_comment
PublishReport ==
  /\ pc = "idle"
  /\ posted' = sign_response(workflow_report(text))
  /\ result' = Outcome("publish_report", "returned", NoExc, "None", "ok")
  /\ UNCHANGED <<hubVars, gitVars, cwd, originUrl, humans, ops, pc, fr,
                 entry, did, callVars, text, worktree, diverged>>

\* ------------------------------------------------------- specifications
\* branch resolution against branches and comments users create
NextResolve ==
  \/ UserCommentIssue
  \/ UserBranch
  \/ CallGetDevelopmentBranch

SpecResolve == Init /\ [][NextResolve]_vars

\* the three code-editing workflows and branch resolution, in a repository
\* whose branches only the engine creates
DevelopFlow ==
  \/ DevStart \/ DevGenerate \/ DevBranch \/ DevAider \/ DevPush
  \/ DevCreatePr \/ DevIssueComment \/ DevLabel \/ DevPrComment
  \/ DevBack \/ DevRollback

StandaloneFlow ==
  \/ SoloStart \/ SoloSummarize \/ SoloGenerate \/ SoloAider \/ SoloPush
  \/ SoloPrComment \/ SoloBack \/ SoloRollback

RespondFlow ==
  \/ RespStart \/ RespCheckout \/ RespSummarize \/ RespGenerate
  \/ RespAider \/ RespPush \/ RespPrComment \/ RespBack \/ RespRollback

NextFlows ==
  \/ UserPlainIssue
  \/ UserPlainPr
  \/ CallGetDevelopmentBranch
  \/ DevelopFlow
  \/ StandaloneFlow
  \/ RespondFlow

\* the repository may already hold one branch for the issue, made by a
\* user: fetched into the clone, or pushed after the last fetch
InitFlows ==
  \E main \in MainNames, pre \in {"none", "fetched", "unfetched"} :
    /\ comments = [i \in Items |-> <<>>]
    /\ labels = [i \in Items |-> {"blech_bot"}]
    /\ prOpen = {"pr"}
    /\ prHead = [p \in Prs |-> IF p = "pr" THEN PrBranch ELSE "None"]
    /\ localHeads = {main, PrBranch}
    /\ tracking = {main, PrBranch}
                    \cup (IF pre = "fetched" THEN {NameTable[2]} ELSE {})
    /\ remoteHeads = {main, PrBranch}
                       \cup (IF pre = "none" THEN {} ELSE {NameTable[2]})
    /\ currentBranch = main
    /\ ghLinked = {}
    /\ cwd = "home"
    /\ originUrl = "https"
    /\ humans = 0
    /\ ops = 0
    /\ pc = "idle"
    /\ fr = NoFrame
    /\ entry = NoSnapshot
    /\ did = {}
    /\ result = NoOutcome
    /\ titled = {}
    /\ classifier = "source"
    /\ run = NoRun
    /\ InitAux

SpecFlows == InitFlows /\ [][NextFlows]_vars

\* process_issue and process_repository over items users comment on, with
\* the classifier of the source or the one the tests bind
NextProcess ==
  \/ UserCommentIssue
  \/ UserPlainPr
  \/ PiStart
  \/ PiReturn
  \/ CalledFlows

\* process_repository passes over the open items
NextRepository ==
  \/ UserCommentIssue
  \/ UserPlainPr
  \/ RepoStart \/ RepoNext \/ RepoAfter
  \/ PiCalled
  \/ PiReturn
  \/ CalledFlows

\* how the issue and the stand-alone pull request carry the bot's tag: as a
\* label, in the title, or not; the pull request `gh pr create --fill`
\* opens for the issue carries none
Taggings == {"label", "title", "none"}

\* what the passes start from: nothing, the pull request a successful
\* develop_issue_flow opened for the issue on the bot's branch, or an issue
\* a user gave the under_development label by hand
Stages == {"fresh", "developed", "labelled"}

InitProcess ==
  \E main \in MainNames, cl \in {"source", "patched"}, tag \in Taggings,
     stage \in Stages :
    LET dev == stage = "developed"
        made == IF dev THEN {NameTable[1]} ELSE {}
    IN
    /\ comments = [i \in Items |->
                     IF dev /\ i = "issue" THEN <<{"dev"}, {"bot", "prc"}>>
                     ELSE IF dev /\ i = "devpr" THEN <<{"bot"}>>
                     ELSE <<>>]
    /\ labels = [i \in Items |->
                   (IF tag = "label" /\ i # "devpr" THEN {"blech_bot"}
                    ELSE {})
                   \cup (IF (dev \/ stage = "labelled") /\ i = "issue"
                         THEN {"under_development"} ELSE {})]
    /\ titled = IF tag = "title" THEN Items \ {"devpr"} ELSE {}
    /\ classifier = cl
    /\ prOpen = IF dev THEN {"pr", "devpr"} ELSE {"pr"}
    /\ prHead = [p \in Prs |-> IF p = "pr" THEN PrBranch
                               ELSE IF dev THEN NameTable[1] ELSE "None"]
    /\ localHeads = {main, PrBranch} \cup made
    /\ tracking = {main, PrBranch} \cup made
    /\ remoteHeads = {main, PrBranch} \cup made
    /\ currentBranch = main
    /\ ghLinked = made
    /\ cwd = "home"
    /\ originUrl = "https"
    /\ humans = 0
    /\ ops = 0
    /\ pc = "idle"
    /\ fr = NoFrame
    /\ entry = NoSnapshot
    /\ did = {}
    /\ result = NoOutcome
    /\ run = NoRun
    /\ InitAux

SpecProcess == InitProcess /\ [][NextProcess]_vars

SpecRepository == InitProcess /\ [][NextRepository]_vars

\* process_issue in a repository where users also push branches that
\* reference the issue
NextProcessBranches ==
  \/ UserCommentIssue
  \/ UserPlainPr
  \/ UserBranch
  \/ PiStart
  \/ PiReturn
  \/ CalledFlows

SpecProcessBranches == InitProcess /\ [][NextProcessBranches]_vars

\* process_issue over items on which users also paste error reports
NextProcessReports ==
  \/ UserCommentIssue
  \/ UserPlainPr
  \/ UserErrorReport
  \/ PiStart
  \/ PiReturn
  \/ CalledFlows

SpecProcessReports == InitProcess /\ [][NextProcessReports]_vars

\* trigger evaluation against comments and branches users create
NextTriggers ==
  \/ UserCommentIssue
  \/ BotResponse
  \/ UserBranch
  \/ CallCheckTriggers
  \/ SelectAndRespond

SpecTriggers == Init /\ [][NextTriggers]_vars

\* publishing of generated texts
NextPublish ==
  \/ LlmGenerates
  \/ PublishResponse
  \/ PublishReport

InitPublish ==
  \E main \in MainNames, t \in Texts :
    /\ InitRepo(main, "https")
    /\ text = t
    /\ posted = <<>>
    /\ worktree = {}
    /\ diverged = {}

SpecPublish == InitPublish /\ [][NextPublish]_vars

\* -------------------------------------------------- checkout_branch call
\* a user leaves an uncommitted change in the clone
UserEdits ==
  /\ pc = "idle"
  /\ \E c \in TreeChanges :
       /\ c \notin worktree
       /\ worktree' = worktree \cup {c}
  /\ Forget
  /\ UNCHANGED <<hubVars, gitVars, cwd, originUrl, humans, ops, pc, fr,
                 callVars, text, posted, diverged>>

\* a commit is made on the checked-out branch and not pushed
UserCommits ==
  /\ pc = "idle"
  /\ currentBranch \notin diverged
  /\ diverged' = diverged \cup {currentBranch}
  /\ worktree' = git_reset_hard(worktree)
  /\ Forget
  /\ UNCHANGED <<hubVars, gitVars, cwd, originUrl, humans, ops, pc, fr,
                 callVars, text, posted>>

CheckoutTargets == MainNames \cup {PrBranch} \cup IssueBranchNames

CallCheckoutBranch ==
  /\ StartOp
  /\ \E b \in CheckoutTargets, create \in BOOLEAN, carry \in BOOLEAN :
       LET r == checkout_worktree(b, create, localHeads, tracking,
                                  currentBranch, worktree, diverged, carry)
       IN /\ localHeads' = r.heads
          /\ currentBranch' = r.cur
          /\ worktree' = r.wt
          /\ diverged' = r.div
          /\ did' = {}
          /\ result' = Outcome("checkout_branch",
                               IF Raised(r.exc) THEN "raised" ELSE "returned",
                               r.exc, b, "ok")
  /\ entry' = Snapshot
  /\ UNCHANGED <<hubVars, tracking, remoteHeads, ghLinked, cwd, originUrl,
                 humans, pc, fr, callVars, text, posted>>

\* checkout_branch in a clone users work in
NextCheckout ==
  \/ UserEdits
  \/ UserCommits
  \/ UserBranch
  \/ CallCheckoutBranch

SpecCheckout == Init /\ [][NextCheckout]_vars

\* --------------------------------------------- back_to_master_branch call
CallBackToMaster ==
  /\ StartOp
  /\ \E gitOk \in BOOLEAN :
       LET b == back_to_master_branch(localHeads, currentBranch, gitOk)
       IN /\ currentBranch' = b.cur
          /\ result' = Outcome("back_to_master_branch",
                               IF Raised(b.exc) THEN "raised" ELSE "returned",
                               b.exc, merge_master_branch(localHeads),
                               IF gitOk THEN "ok" ELSE "git_failed")
  /\ did' = {}
  /\ entry' = Snapshot
  /\ UNCHANGED <<hubVars, localHeads, tracking, remoteHeads, ghLinked, cwd,
                 originUrl, humans, pc, fr, callVars, auxVars>>

\* clones with any of 'master', 'main' and the pull request's branch as
\* local heads, one of them checked out
InitHeads ==
  \E heads \in SUBSET (MainNames \cup {PrBranch}) :
  \E cur \in heads, url \in {"https", "ssh"} :
    /\ InitAux
    /\ comments = [i \in Items |-> <<>>]
    /\ labels = [i \in Items |-> {"blech_bot"}]
    /\ prOpen = {"pr"}
    /\ prHead = [p \in Prs |-> IF p = "pr" THEN PrBranch ELSE "None"]
    /\ localHeads = heads
    /\ tracking = heads
    /\ remoteHeads = heads \cup {PrBranch}
    /\ currentBranch = cur
    /\ ghLinked = {}
    /\ cwd = "home"
    /\ originUrl = url
    /\ humans = 0
    /\ ops = 0
    /\ pc = "idle"
    /\ fr = NoFrame
    /\ entry = NoSnapshot
    /\ did = {}
    /\ result = NoOutcome
    /\ titled = {}
    /\ classifier = "source"
    /\ run = NoRun

\* the return to the main branch in clones users switch branches in
NextHeads ==
  \/ UserEdits
  \/ UserCommits
  \/ CallCheckoutBranch
  \/ CallBackToMaster

SpecHeads == InitHeads /\ [][NextHeads]_vars

\* authenticated push against threads users comment on
NextPush ==
  \/ UserCommentIssue
  \/ UserCommentPr
  \/ CallPush

SpecPush == Init /\ [][NextPush]_vars

\* ------------------------------------------------------------------------
\* C1: get_development_branch, called with create true or false while N >= 2
\* distinct branch names reference the issue, raises the multiple-branches
\* error naming all N branches and never returns a branch.
C1_MultipleBranchesError ==
  ( /\ result.op \in {"get_development_branch",
                       "get_development_branch_create"}
    /\ result.env = "ok"
    /\ Cardinality(entry.related) >= 2 )
  => /\ result.status = "raised"
     /\ result.exc.type = "RuntimeError"
     /\ "multi" \in result.exc.marks
     /\ result.exc.names = entry.related

\* every distinct branch name of the repository that references the issue
AllIssueBranches ==
  (localHeads \cup tracking \cup remoteHeads \cup ghLinked)
    \cap IssueBranchNames

Workflows == {"develop_issue_flow", "respond_pr_comment_flow",
              "standalone_pr_flow"}

\* the last operation was one of ops and has returned or raised
Done(ops_) == pc = "idle" /\ result.op \in ops_

\* C2: from a repository with at most one branch name for the issue, calls
\* of get_development_branch and workflow runs never lead to two distinct
\* names; a name appears only in a create=True resolution that found none.
C2_AtMostOneBranch ==
  /\ [](Cardinality(AllIssueBranches) <= 1)
  /\ [][AllIssueBranches' # AllIssueBranches
         => /\ AllIssueBranches = {}
            /\ \/ At("develop", "branch")
               \/ result'.op = "get_development_branch_create"]_vars

\* a create=True resolution made the issue's one branch
C2_Witness ==
  /\ Done({"get_development_branch_create"})
  /\ "create_branch" \in did
  /\ Cardinality(AllIssueBranches) = 1

\* C3: develop_issue_flow deletes the working branch on failure only if no
\* push of it succeeded.
C3_DeleteOnlyIfUnpushed ==
  (Done({"develop_issue_flow"}) /\ "push_ok" \in did)
  => "delete_branch" \notin did

\* C4: when a code-editing workflow returns or raises, the process working
\* directory is the one it started in.
C4_WorkingDirectoryRestored ==
  Done(Workflows) => cwd = entry.cwd

\* C5: when the workflow run for an item has returned or raised (which is
\* the state process_issue returns in), the default branch is checked out,
\* unless the clean-up's own checkout failed.
C5_DefaultBranchAfterItem ==
  (Done(Workflows) /\ "cleanup_failed" \notin did)
  => currentBranch \in MainNames

\* C8: a rejected push makes the workflow's outcome an error: no pull
\* request, success comment or label follows it, and the working copy is
\* back on the default branch unless the clean-up's own checkout failed.
C8_RejectedPushIsError ==
  (Done(Workflows) /\ "push_rejected" \in did)
  => /\ result.status = "error"
     /\ did \cap {"pr_created", "issue_comment", "label", "pr_comment"} = {}
     /\ "cleanup_failed" \notin did => currentBranch \in MainNames

\* C9: an external edit that exits successfully without a new commit is
\* reported as a no-changes error and the workflow's outcome is error: no
\* push is attempted, no pull request is created, no comment is posted.
C9_NoChangesIsError ==
  (Done(Workflows) /\ "aider_nochange" \in did)
  => /\ result.status = "error"
     /\ "nochanges" \in result.exc.marks
     /\ did \cap {"push_attempt", "pr_created", "issue_comment", "label",
                  "pr_comment"} = {}

\* develop_issue_flow ended in error after an edit that changed nothing
C9_Witness ==
  /\ Done({"develop_issue_flow"})
  /\ "aider_nochange" \in did
  /\ result.status = "error"
  /\ "nochanges" \in result.exc.marks

\* C10: for an issue with zero comments the evaluated trigger is
\* new_response and the function selected for it is generate_new_response.
C10_ZeroCommentsNewResponse ==
  (Done({"check_triggers"}) /\ "issue" \in entry.empty)
  => /\ result.status = "returned"
     /\ result.ret = "new_response"
     /\ did = {"generate_new_response"}

\* the issue's comments when the last operation started
EntryThread == entry.hub[1]["issue"]

HasMarker(cs, m) == \E k \in DOMAIN cs : m \in cs[k]

\* C11: for an issue whose history has a bot comment followed by a user
\* comment, and no generate_edit_command marker, the evaluated trigger is
\* feedback and the function selected is generate_feedback_response.
C11_FeedbackTrigger ==
  ( /\ Done({"check_triggers"})
    /\ has_user_feedback(EntryThread)
    /\ ~HasMarker(EntryThread, "gec") )
  => /\ result.status = "returned"
     /\ result.ret = "feedback"
     /\ did = {"generate_feedback_response"}

\* C12: for a history of one bot comment and nothing after it,
\* check_triggers returns no trigger and no response function is selected.
C12_AlreadyRespondedNoTrigger ==
  ( /\ Done({"check_triggers"})
    /\ Len(EntryThread) = 1
    /\ "bot" \in EntryThread[1] )
  => /\ result.status = "returned"
     /\ result.ret = "None"
     /\ did = {"None"}

C14_OnlyLatestCommentCounts ==
  ( /\ Done({"check_triggers"})
    /\ HasMarker(EntryThread, "gec")
    /\ "gec" \notin Last(EntryThread) )
  => ~(result.status = "returned" /\ result.ret = "generate_edit_command")

\* C15: when the latest comment of a tagged issue holds the
\* generate_edit_command marker, process_issue runs no workflow of a lower
\* priority: neither the pull-request follow-up nor develop_issue, also when
\* the issue has a 'Created pull request' comment.
C15_EditCommandBeforeFollowup ==
  ( /\ Done({"process_issue"})
    /\ result.env = "patched"
    /\ result.item = "issue"
    /\ EntryThread # <<>>
    /\ "gec" \in Last(EntryThread) )
  => result.ret \notin {"respond_pr_comment_flow", "develop_issue_flow"}

\* the item passed the checks of lines 1004-1024 when the call started: it
\* carries the tag, has no bot response left without feedback, and no error
\* comment as its latest
EntryEligible(i) ==
  /\ "blech_bot" \in EntryLabels(i) \/ i \in titled
  /\ ~(has_bot_response(EntryComments(i))
       /\ ~has_user_feedback(EntryComments(i)))
  /\ ~has_error_comment(EntryComments(i))

\* C16: a pull request that passes the eligibility checks is handed to
\* standalone_pr_flow and to nothing else, also when it has no comments.
C16_PullRequestGoesStandalone ==
  ( /\ Done({"process_issue"})
    /\ result.item \in Prs
    /\ EntryEligible(result.item) )
  => result.ret = "standalone_pr_flow"

\* what develop_issue_flow changes: it creates a branch, checks it out, runs
\* the editor, pushes, opens a pull request, adds the label
DevelopMutations == {"create_branch", "checkout", "aider", "push_attempt",
                     "pr_created", "label"}

\* process_issue is running develop_issue_flow, or has run it
DevelopPass ==
  \/ run.call = "develop"
  \/ Done({"process_issue"}) /\ result.ret = "develop_issue_flow"

\* C17: in a pass of process_issue, develop_issue_flow creates a branch,
\* checks out, runs the editor, pushes, opens a pull request or adds the
\* label only if, when the pass started, the issue's latest comment held the
\* develop_issue marker, no comment held 'Created pull request', and the
\* issue did not carry the under_development label.
C17_DevelopOnlyOnTrigger ==
  (DevelopPass /\ did \cap DevelopMutations # {})
  => /\ EntryThread # <<>>
     /\ "dev" \in Last(EntryThread)
     /\ ~HasMarker(EntryThread, "prc")
     /\ "under_development" \notin EntryLabels("issue")

\* a pass that developed the issue up to its pull request and label
C17_Witness ==
  /\ Done({"process_issue"})
  /\ result.ret = "develop_issue_flow"
  /\ result.status = "success"
  /\ {"create_branch", "push_attempt", "pr_created", "label"} \subseteq did
  /\ "dev" \in Last(EntryThread)

C19_UntaggedItemSkipped ==
  ( /\ Done({"process_issue"})
    /\ "blech_bot" \notin EntryLabels(result.item)
    /\ result.item \notin titled )
  => /\ result.status = "skip"
     /\ result.ret = "no_label"
     /\ did = {}
     /\ hubVars = entry.hub
     /\ gitVars = entry.git
     /\ cwd = entry.cwd

\* C20: a pass of process_repository that listed the open items calls
\* process_issue for every one of them, also when processing an item raised.
C20_EveryItemProcessed ==
  (Done({"process_repository"}) /\ result.env # "setup_failed")
  => run.done = run.items

\* C21: a pass of process_repository that checked out the default branch,
\* updated the clone and listed the open items has called process_issue
\* once for each of them, in listing order, one call after the other.
C21_OneCallPerItemInOrder ==
  (Done({"process_repository"}) /\ result.env # "setup_failed")
  => run.log = Listing(run.items, 1)

RepeatsFailedPass ==
  /\ Done({"process_issue"})
  /\ result.prev.item = result.item
  /\ result.prev.status \in {"error", "raised"}
  /\ result.prev.humans = humans

\* C23: when processing an item failed and the same processing is run again
\* with nothing changed in between, the first run has put exactly one error
\* comment on the item and the second run is a skip that posts nothing.
C23_ErrorPostedOnce ==
  RepeatsFailedPass
  => /\ TracesAfter(EntryComments(result.item), result.prev.len) = 1
     /\ result.status = "skip"
     /\ comments = entry.hub[1]

\* the texts that report a failure
ErrorMarks == {"trace", "multi", "pushfail", "createfail", "ghmissing",
               "nochanges"}

\* the comments reporting a failure that thread cs holds after its first n
ErrorsAfter(cs, n) ==
  Cardinality({k \in DOMAIN cs : k > n /\ cs[k] \cap ErrorMarks # {}})

\* C24: a pass of process_issue in which the item's workflow failed has put
\* exactly one comment that reports a failure on the item.
C24_OneErrorComment ==
  (Done({"process_issue"}) /\ result.status = "error")
  => ErrorsAfter(comments[result.item],
                 Len(EntryComments(result.item))) = 1

\* C25: when process_issue returns a skip, no comment was created on any
\* thread during the call.
C25_SkipPostsNothing ==
  (Done({"process_issue"}) /\ result.status = "skip")
  => comments = entry.hub[1]

\* a pass over an issue with a linked pull request that nobody commented on
\* was skipped by respond_pr_comment_flow
C25_Witness ==
  /\ Done({"process_issue"})
  /\ result.status = "skip"
  /\ result.ret = "respond_pr_comment_flow"
  /\ comments["devpr"] # <<>>

\* the comments signed by the bot that thread cs holds after its first n
BotCommentsAfter(cs, n) == {k \in DOMAIN cs : k > n /\ "bot" \in cs[k]}

\* C26: every call of process_issue returns success, skip or error; with
\* success a bot comment was posted during the call on the item or on a
\* pull request, with error a comment with the error on the item.
C26_OutcomeSurfaced ==
  Done({"process_issue"})
  => /\ result.status \in {"success", "skip", "error"}
     /\ result.status = "success"
          => \E i \in Items :
               BotCommentsAfter(comments[i], Len(EntryComments(i))) # {}
     /\ result.status = "error"
          => TracesAfter(comments[result.item],
                         Len(EntryComments(result.item))) >= 1

\* C27: whatever signatures and TERMINATE words a generated text holds, the
\* comment published from it holds no TERMINATE and exactly one signature.
C27_OneSignatureNoTerminate ==
  result.op \in {"publish_response", "publish_report"}
  => /\ ~Holds(posted, {"TERM"})
     /\ SigCount(posted) = 1

\* C28: no step of a workflow creates a comment on a pull request whose
\* latest comment already carries the text of the new one.
C28_PrCommentDeduplicated ==
  [][\A p \in Prs :
       (pc # "idle" /\ comments[p] # <<>> /\ comments'[p] # comments[p])
       => Last(comments'[p]) # Last(comments[p])]_vars

\* C29: checkout_branch always discards uncommitted local changes before
\* it switches and afterwards aligns the branch to origin/<branch> when that
\* exists; for a branch without a remote counterpart the checkout still
\* succeeds and leaves the requested branch checked out.
C29_CheckoutDiscardsAndAligns ==
  ( /\ Done({"checkout_branch"})
    /\ result.ret \in entry.git[1] \cup entry.git[2] )
  => /\ result.status = "returned"
     /\ currentBranch = result.ret
     /\ worktree = {}
     /\ (result.ret \in entry.git[2] => result.ret \notin diverged)

\* C30: for an issue with no branch, get_development_branch(create=True)
\* followed immediately by get_development_branch(create=False) returns the
\* same branch name from both calls, and the second call creates nothing.
C30_CreateThenLookup ==
  (Done({"get_development_branch"}) /\ result.after # "None")
  => /\ result.status = "returned"
     /\ result.ret = result.after
     /\ did = {}
     /\ entry.git = gitVars

\* the lookup that followed a creation has returned
C30_Witness ==
  /\ Done({"get_development_branch"})
  /\ result.after \in IssueBranchNames
  /\ result.status = "returned"
  /\ entry.related = {result.after}

\* the effects of a workflow on the clone, on origin and on pull requests
LifecycleEffects == {"create_branch", "checkout", "aider", "aider_nochange",
                     "push_attempt", "push_ok", "push_rejected",
                     "pr_created"}

\* C31: when two branches reference an issue whose latest comment triggers
\* develop_issue, process_issue returns the error outcome with both branch
\* names in the error detail, and during the pass no branch is checked out
\* or created, the editor is not run, nothing is pushed and no pull request
\* is created.
C31_TwoBranchesIsError ==
  ( /\ Done({"process_issue"})
    /\ result.item = "issue"
    /\ Cardinality(entry.related) = 2
    /\ has_develop_issue_trigger(EntryComments("issue"))
    /\ ~has_pr_creation_comment(EntryComments("issue"))
    /\ "blech_bot" \in EntryLabels("issue") \/ "issue" \in titled )
  => /\ result.status = "error"
     /\ result.exc.names = entry.related
     /\ did \cap LifecycleEffects = {}
     /\ entry.git = gitVars
     /\ entry.hub[3] = prOpen

\* C32: trigger evaluation is read-only: evaluating check_triggers for an
\* item posts no comment, changes no label and no branch, and never raises
\* because of branch state; comments, labels and branches are afterwards
\* what they were before.
C32_TriggerEvaluationReadOnly ==
  (Done({"check_triggers"}) /\ result.env = "ok")
  => /\ result.status = "returned"
     /\ entry.hub = hubVars
     /\ entry.git = gitVars

\* C33: a call of get_development_branch that finds more than one branch
\* raises the multiple-branches error; it creates no comment when the
\* issue's latest comment already holds 'Found multiple branches', and
\* exactly one comment, holding it, otherwise.
C33_AmbiguityReportedOnce ==
  ( /\ Done({"get_development_branch", "get_development_branch_create"})
    /\ result.env = "ok"
    /\ Cardinality(entry.related) >= 2 )
  => LET before == EntryComments("issue")
         after == comments["issue"]
     IN /\ result.status = "raised"
        /\ "multi" \in result.exc.marks
        /\ IF before # <<>> /\ "multi" \in Last(before)
           THEN after = before
           ELSE /\ Len(after) = Len(before) + 1
                /\ SubSeq(after, 1, Len(before)) = before
                /\ "multi" \in Last(after)

\* C34: an item whose latest comment is an error report (it holds the
\* traceback header) is skipped by every pass of process_issue, issue or
\* pull request: the pass returns a skip, no workflow and no response
\* function runs on it, and nothing is posted or changed.
C34_ErrorReportBlocksItem ==
  ( /\ Done({"process_issue"})
    /\ has_error_comment(EntryComments(result.item)) )
  => /\ result.status = "skip"
     /\ did = {}
     /\ hubVars = entry.hub
     /\ gitVars = entry.git

\* what a step of develop_issue_flow needs to have happened before it: the
\* effects of the steps before it, in the order of the lifecycle
Needs(e) ==
  CASE e \in {"create_branch", "checkout"} -> {}
    [] e \in {"aider", "aider_nochange"} -> {}
    [] e \in {"push_attempt", "push_ok", "push_rejected"} -> {"aider"}
    [] e = "pr_created" -> {"aider"}
    [] e = "issue_comment" -> {"aider", "pr_created"}
    [] e = "label" -> {"aider", "pr_created", "issue_comment"}
    [] e = "pr_comment" -> {"aider", "pr_created", "issue_comment", "label"}
    [] OTHER -> {}

RollbackEffects == {"back_to_master", "delete_branch", "cleanup_failed"}

\* C35: in every execution of develop_issue_flow the steps occur only in
\* the order branch, checkout, edit, push, pull request, 'Created pull
\* request' comment, label, report on the pull request, return to main: a
\* step runs only after the steps before it, the edit only on the resolved
\* branch, the pull request only after the push has returned, the return to
\* main only after the report; once a step has raised, only rollback
\* actions follow.
C35_LifecycleOrder ==
  [][fr.op = "develop"
     => \A e \in did' \ did :
          IF pc = "rollback" \/ Raised(fr.exc) THEN e \in RollbackEffects
          ELSE /\ Needs(e) \subseteq did
               /\ e \in {"aider", "aider_nochange"}
                    => currentBranch = fr.branch
               /\ e = "pr_created" => fr.pushRet # "none"
               /\ e = "back_to_master" => "pr_comment" \in did
               /\ e \notin {"delete_branch", "cleanup_failed"}]_vars

\* develop_issue_flow went through every step and returned success
C35_Witness ==
  /\ Done({"develop_issue_flow"})
  /\ result.status = "success"
  /\ {"aider", "push_ok", "pr_created", "issue_comment", "label",
      "pr_comment", "back_to_master"} \subseteq did
  /\ currentBranch \in MainNames

\* C36: the engine adds the under_development label to an issue only after
\* it has created a pull request for it and posted the 'Created pull
\* request' comment on it in the same run; no issue carries a label the
\* engine added without holding a 'Created pull request' comment.
C36_LabelOnlyAfterPullRequest ==
  /\ "label" \in did => {"pr_created", "issue_comment"} \subseteq did
  /\ "under_development" \in labels["issue"]
       => /\ HasMarker(comments["issue"], "prc")
          /\ "devpr" \in prOpen

\* the issue was labelled by the run that opened its pull request
C36_Witness ==
  /\ "label" \in did
  /\ "under_development" \in labels["issue"]
  /\ HasMarker(comments["issue"], "prc")
  /\ prHead["devpr"] \in IssueBranchNames

\* C37: once develop_issue_flow has succeeded for an issue (the issue holds
\* its 'Created pull request' comment), no later pass runs it for that issue
\* again, also after another develop_issue comment: every later eligible
\* pass is routed to respond_pr_comment_flow and no further pull request is
\* created.
C37_DevelopedIssueGoesToFollowup ==
  ( /\ Done({"process_issue"})
    /\ result.item = "issue"
    /\ HasMarker(EntryComments("issue"), "prc")
    /\ "blech_bot" \in EntryLabels("issue") \/ "issue" \in titled
    /\ ~has_error_comment(EntryComments("issue")) )
  => /\ result.ret = "respond_pr_comment_flow"
     /\ did \cap {"create_branch", "pr_created", "label"} = {}
     /\ prOpen = entry.hub[3]

\* the thread has a comment of the bot and its latest one is not the last
\* comment of the thread
BotThenLater(cs) ==
  \E k \in DOMAIN cs :
    /\ "bot" \in cs[k]
    /\ k < Len(cs)
    /\ \A j \in DOMAIN cs : j > k => "bot" \notin cs[j]

C39_MainBranchSelection ==
  (Done({"back_to_master_branch"}) /\ result.env = "ok")
  => LET heads == entry.git[1]
     IN /\ "master" \in heads
             => result.status = "returned" /\ currentBranch = "master"
        /\ ("master" \notin heads /\ "main" \in heads)
             => result.status = "returned" /\ currentBranch = "main"
        /\ heads \cap MainNames = {}
             => /\ result.status = "raised"
                /\ result.exc.type = "ValueError"
                /\ currentBranch = entry.git[5]
        /\ result.status = "returned" => currentBranch = result.ret

\* C6: when push_changes_with_authentication returns or raises, the URL of
\* 'origin' is the URL it had before the call.
C6_RemoteUrlRestored ==
  result.op = "push_changes_with_authentication" => originUrl = entry.url

\* the push was tried over a rewritten URL and was rejected or raised
C6_Witness ==
  /\ result.op = "push_changes_with_authentication"
  /\ "url_rewritten" \in did
  /\ result.env = "rejected"
  /\ result.status = "raised"
  /\ originUrl = "https"

\* C7: a rejected push makes push_changes_with_authentication return
\* (False, message), never raise, whatever the output thread holds.
C7_RejectionReturned ==
  ( /\ result.op = "push_changes_with_authentication"
    /\ result.env = "rejected" )
  => result.status = "returned" /\ result.ret = "rejected"

====
